---- MODULE Spec2Model ----
(***************************************************************************)
(* Emergency-token lifecycle of mediroute-ai: the operations of the        *)
(* useEmergencyTokens hook, run by an ambulance client and a hospital      *)
(* client against the shared emergency_tokens / ambulances tables.         *)
(* Further: the hospital capacity engine (HospitalCapacityEngine) and the   *)
(* hospital specialties hook (useHospitalSpecialties).                      *)
(***************************************************************************)
EXTENDS Integers, Sequences, FiniteSets, TLC

(* Nullable columns are options: <<>> is SQL NULL, <<v>> is the value v. *)
NULL == <<>>
Some(v) == <<v>>

(* ---- bounds ---- *)
MaxTokens == 2
MaxTime == 2
MaxEvents == 2
MaxIncoming == 2
MaxHospitals == 3
MaxUpdates == 2

(* ---- actors and rows that exist before any operation ---- *)
Clients == {"driver", "hospital"}
Ambulances == {"A1", "A2"}
Times == 1..MaxTime

\* profile.role of the signed-in user of each client
profile == [driver |-> [role |-> "ambulance"], hospital |-> [role |-> "hospital"]]
\* ambulances.driver_id: the driver client operates A1; A2's driver runs no client here
driver_id == [A1 |-> "driver", A2 |-> "other"]

\* the signed-in user (auth.uid()) of each client
user == [c \in Clients |-> Some(c)]

\* the role test that lets every signed-in user pass as a driver
isAmbulanceDriverAnyRole(c) == profile[c].role \in {"ambulance", "hospital"}

isAmbulanceDriver(c) == profile[c].role = "ambulance"
isHospitalUser(c) == profile[c].role = "hospital"

ACTIVE_TOKEN_STATUSES ==
  {"pending", "assigned", "route_selected", "in_progress", "at_patient", "to_hospital"}
TerminalStatuses == {"completed", "cancelled", "declined"}
\* together the nine values of EmergencyToken['status'].  The CHECK constraint of the migration that creates the table
\* lists six of the nine; the migrations that add the later columns (both route legs,
\* arrived_at_patient_at, decline_reason) and statuses are not among the sources, and
\* the store is taken to accept every status of the type.

(* ---- inputs ---- *)
\* ids a caller may pass as hospitalId: the hospital user's uuid, or a seed-list id
HospitalIds == {"hospital", "seed-1"}
isUuid(value) == value \in Clients
Facilities == {[name |-> "H1", lat |-> 30, lng |-> 76]}
Routes ==
  {[distance |-> 1200, duration |-> 90, type |-> "fastest"],
   [distance |-> 800, duration |-> 120, type |-> "shortest"]}
Pickups == {[lat |-> 31, lng |-> 77]}
Origins == {[lat |-> 29, lng |-> 75]}
Reasons == {"", "no beds"}

\* JSON.parse(JSON.stringify(route)): a fresh object with the own enumerable fields
JsonCopy(route) ==
  [distance |-> route.distance, duration |-> route.duration, type |-> route.type]

VARIABLES
  tokens,      \* emergency_tokens table: row i has id i (insertion order = created_at order)
  ambulances,  \* ambulances table: active_token_id, emergency_status per ambulance
  local,       \* per client: the hook's React state, tokens (newest first) and activeToken
  call,        \* per client: the operation suspended at an await between two store calls
  last,        \* the operation that returned most recently, with its return value
  channel,     \* per client: the realtime channel 'emergency-tokens', the events not yet
               \* handled and the ambulance writes its handler has issued, still in flight
  scope,       \* what a specification observes; fixed by its Init, never written:
               \*   columns  the updatable emergency_tokens columns that are tracked
               \*   returns  the operations whose return value is recorded in last
               \*   views    the clients whose React state is kept up to date
               \*   rows     the row limit of emergency_tokens
               \*   subscribed  the clients whose realtime subscription is modelled
  engine,      \* the singleton HospitalCapacityEngine and the localStorage entry it uses:
               \*   capacityMap   hospital id -> HospitalCapacity
               \*   localStorage  the item 'hospital_capacity_data', NULL when absent
               \*   intervalId    the running timer, NULL after destroy()
               \*   reloaded      whether the page has been reloaded since the first load
  page         \* one mounted useHospitalSpecialties hook and the store rows it works on:
               \*   hospitals      the hook's React state, set from useHospitals
               \*   recentUpdates  the hospital_updates rows of the last 30 days
               \*   profiles       hospital id -> the specialties stored in its profiles row
               \*   user           the id of the signed-in profile, NULL when there is none
               \*   mounted        whether the hook's effect has run
               \*   fetching       the fetchData call in progress: the update rows it
               \*                  read and the hospital its loop is at; NULL when none
               \*   events         the profiles UPDATE notifications not yet handled
               \*   result         what the function called last returned, NULL before

vars == <<tokens, ambulances, local, call, last, channel, scope, engine, page>>
tokenVars == <<tokens, ambulances, local, call, last, channel, scope>>

Idle == [op |-> "idle"]

\* the ids a caller may pass as tokenId: those of the rows that can exist, and one
\* that matches no row
TokenIds == 1..(scope.rows + 1)

(* ---- row-level security ---- *)
\* the UPDATE policies without the drivers' one
TokenUpdatePolicyHospitalOnly(c, row) == isHospitalUser(c)

\* "Ambulance drivers can update own tokens" / "Hospital users can update all tokens"
TokenUpdatePolicy(c, row) ==
  \/ driver_id[row.ambulance_id] = c
  \/ isHospitalUser(c)

\* "Ambulance drivers can view own tokens" / "Hospital users can view all tokens"
TokenSelectPolicy(c, row) ==
  \/ driver_id[row.ambulance_id] = c
  \/ isHospitalUser(c)

\* "Ambulance drivers can create tokens" / "Hospital users can create tokens"
TokenInsertPolicy(c, ambulanceId) ==
  \/ driver_id[ambulanceId] = c
  \/ isHospitalUser(c)

\* the driver may update their own ambulance; facility operators any ambulance
AmbulanceUpdatePolicy(c, ambulanceId) ==
  \/ driver_id[ambulanceId] = c
  \/ isHospitalUser(c)

(* ---- store primitives ---- *)
Patch(row, patch) ==
  [f \in DOMAIN row |-> IF f \in DOMAIN patch THEN patch[f] ELSE row[f]]

\* Columns no operation ever updates are always kept; of the others a specification
\* observes scope.columns and holds the rest at NULL.  No operation's control flow
\* reads a token column other than id, ambulance_id and status, so the observed
\* columns evolve exactly as they do in the full row.
KeyColumns ==
  {"id", "ambulance_id", "pickup_lat", "pickup_lng",
   "ambulance_origin_lat", "ambulance_origin_lng", "status"}
Observed(columns) == columns \cap (scope.columns \cup KeyColumns)
ObservedPatch(patch) == [f \in Observed(DOMAIN patch) |-> patch[f]]
\* An input that reaches only unobserved columns yields the same successor whatever
\* its value: it is drawn once.
Inputs(values, columns) ==
  IF columns \cap scope.columns = {} /\ values # {}
  THEN {CHOOSE v \in values : TRUE} ELSE values
LegOneColumns ==
  {"route_to_patient", "route_to_patient_distance_meters", "route_to_patient_duration_seconds"}
LegTwoColumns ==
  {"route_to_hospital", "route_to_hospital_distance_meters", "route_to_hospital_duration_seconds"}
MirrorColumns ==
  {"selected_route", "route_type", "route_distance_meters", "route_duration_seconds"}
ObservedRow(row) == [f \in DOMAIN row |-> IF f \in Observed(DOMAIN row) THEN row[f] ELSE NULL]

\* rows matched by .eq('id', tokenId) that the caller's UPDATE policy lets through
UpdatedRows(c, tokenId) ==
  {i \in DOMAIN tokens : i = tokenId /\ TokenUpdatePolicy(c, tokens[i])}

\* supabase.from('emergency_tokens').update(patch).eq('id', tokenId)
TokensAfterUpdate(c, tokenId, patch, err) ==
  IF err THEN tokens
  ELSE [i \in DOMAIN tokens |->
          IF i \in UpdatedRows(c, tokenId)
          THEN Patch(tokens[i], ObservedPatch(patch)) ELSE tokens[i]]

\* supabase.from('ambulances').update(patch).eq('id', ambulanceId)
AmbulancesAfterUpdate(c, ambulanceId, patch, err) ==
  IF err \/ ~AmbulanceUpdatePolicy(c, ambulanceId) THEN ambulances
  ELSE [ambulances EXCEPT ![ambulanceId] = Patch(@, patch)]

\* supabase.from('emergency_tokens').insert(row)
TokensAfterInsert(row) == Append(tokens, ObservedRow(row))

\* new Date(): no earlier than any timestamp already stored
StampFields == {"assigned_at", "started_at", "arrived_at_patient_at", "completed_at"}
Now ==
  {t \in Times : \A i \in DOMAIN tokens : \A f \in StampFields :
                   tokens[i][f] # NULL => tokens[i][f][1] <= t}

(* ---- the hook's React state ---- *)
findActiveToken(list) ==
  IF \E i \in DOMAIN list : list[i].status \in ACTIVE_TOKEN_STATUSES
  THEN Some(list[CHOOSE i \in DOMAIN list :
                   /\ list[i].status \in ACTIVE_TOKEN_STATUSES
                   /\ \A j \in 1..(i - 1) : list[j].status \notin ACTIVE_TOKEN_STATUSES])
  ELSE NULL

Reverse(list) == [i \in 1..Len(list) |-> list[Len(list) + 1 - i]]

\* select('*').order('created_at', { ascending: false }) under the caller's SELECT policy
FetchedTokens(c) ==
  LET visible(row) == TokenSelectPolicy(c, row)
  IN  Reverse(SelectSeq(tokens, visible))

\* fetchTokens: setTokens(typedData); setActiveToken(findActiveToken(typedData))
LocalAfterFetch(c, err) ==
  IF user[c] = NULL \/ err THEN local[c]
  ELSE [tokens |-> FetchedTokens(c), activeToken |-> findActiveToken(FetchedTokens(c))]

\* setTokens(prev => prev.map(t => t.id === updated.id ? updated : t)) and the
\* setActiveToken(findActiveToken(next)) inside it; data holds the row handed back
LocalAfterUpdate(c, data) ==
  LET list == local[c].tokens
      next == [i \in DOMAIN list |->
                 IF \E updated \in data : updated.id = list[i].id
                 THEN CHOOSE updated \in data : updated.id = list[i].id
                 ELSE list[i]]
  IN  [tokens |-> next, activeToken |-> findActiveToken(next)]

\* what the caller of an observed operation sees: the return value, and the error the
\* catch block logs ("none" when nothing was thrown)
Returned(op, ret, error) ==
  IF op \in scope.returns THEN [op |-> op, ret |-> ret, error |-> error] ELSE last

\* the error object of an update(...).eq(...) call
UpdateError(err) == IF err THEN "upstream" ELSE "none"

\* the error object of update(...).eq('id', tokenId).select('*').single(): no single row
\* to return is itself an error
SingleError(c, tokenId, err) ==
  IF err THEN "upstream" ELSE IF UpdatedRows(c, tokenId) = {} THEN "PGRST116" ELSE "none"

\* an operation between two awaits: its arguments, whether its token write changed a
\* row, and (for an observed operation) the status it found the token in
Suspended(op, tokenId, ambulanceId, written) ==
  [op |-> op, token |-> tokenId, ambulance |-> ambulanceId, written |-> written,
   from |-> IF op \in scope.returns /\ tokenId \in DOMAIN tokens
            THEN Some(tokens[tokenId].status) ELSE NULL]

\* whether an update of token tokenId by c changes a row
Written(c, tokenId, err) == ~err /\ UpdatedRows(c, tokenId) # {}

\* the rows an update of token tokenId by c writes
Touched(c, tokenId, err) == IF err THEN {} ELSE UpdatedRows(c, tokenId)

(* ---- realtime: postgres_changes on emergency_tokens ---- *)
\* the events a write of the given rows sends to client c: payload.new is the row as
\* written, and a client is sent the rows its SELECT policy shows
Payloads(c, eventType, rows) ==
  IF \E i \in rows : TokenSelectPolicy(c, tokens'[i])
  THEN <<[eventType |-> eventType,
          new |-> tokens'[CHOOSE i \in rows : TokenSelectPolicy(c, tokens'[i])]]>>
  ELSE <<>>

\* every write of a token row is published to the subscribed clients; a client's
\* channel holds at most MaxEvents unhandled events
Publish(eventType, rows) ==
  /\ \A c \in scope.subscribed :
       Len(channel[c].events) + Len(Payloads(c, eventType, rows)) <= MaxEvents
  /\ channel' = [c \in Clients |->
                   IF c \in scope.subscribed
                   THEN [channel[c] EXCEPT !.events = @ \o Payloads(c, eventType, rows)]
                   ELSE channel[c]]

(* ---- Init ---- *)
InitScoped(observed) ==
  /\ tokens = <<>>
  /\ ambulances = [a \in Ambulances |->
                     [active_token_id |-> NULL, emergency_status |-> "inactive"]]
  /\ local = [c \in Clients |-> [tokens |-> <<>>, activeToken |-> NULL]]
  /\ call = [c \in Clients |-> Idle]
  /\ last = [op |-> "none", ret |-> "none", error |-> "none"]
  /\ channel = [c \in Clients |-> [events |-> <<>>, clearing |-> {}]]
  /\ scope = observed
  /\ engine = [capacityMap |-> <<>>, localStorage |-> NULL, intervalId |-> Some(1),
               reloaded |-> FALSE]
  /\ page = [hospitals |-> <<>>, recentUpdates |-> <<>>, profiles |-> <<>>, user |-> NULL,
             mounted |-> FALSE, fetching |-> NULL, events |-> 0, result |-> NULL]

(* ---- createToken ---- *)
NewToken(ambulanceId, pickup, origin) ==
  [ id |-> Len(tokens) + 1,
    ambulance_id |-> ambulanceId,
    ambulance_origin_lat |-> Some(origin.lat),
    ambulance_origin_lng |-> Some(origin.lng),
    pickup_lat |-> pickup.lat,
    pickup_lng |-> pickup.lng,
    hospital_id |-> NULL,
    hospital_name |-> NULL,
    hospital_lat |-> NULL,
    hospital_lng |-> NULL,
    route_to_patient |-> NULL,
    route_to_patient_distance_meters |-> NULL,
    route_to_patient_duration_seconds |-> NULL,
    arrived_at_patient_at |-> NULL,
    route_to_hospital |-> NULL,
    route_to_hospital_distance_meters |-> NULL,
    route_to_hospital_duration_seconds |-> NULL,
    selected_route |-> NULL,
    route_type |-> NULL,
    route_distance_meters |-> NULL,
    route_duration_seconds |-> NULL,
    status |-> "pending",
    decline_reason |-> NULL,
    assigned_at |-> NULL,
    started_at |-> NULL,
    completed_at |-> NULL ]

\* first half, up to the await of the insert
createToken(c, ambulanceId, pickup, origin, err) ==
  /\ call[c] = Idle
  /\ IF ~isAmbulanceDriver(c) \/ err \/ ~TokenInsertPolicy(c, ambulanceId)
     THEN /\ last' = Returned("createToken", "null",
                              IF ~isAmbulanceDriver(c) THEN "none"
                              ELSE IF err THEN "upstream" ELSE "rls")
          /\ UNCHANGED <<channel, tokens, ambulances, local, call, scope, engine, page>>
     ELSE /\ Len(tokens) < scope.rows
          /\ tokens' = TokensAfterInsert(NewToken(ambulanceId, pickup, origin))
          /\ Publish("INSERT", {Len(tokens) + 1})
          /\ call' = [call EXCEPT ![c] =
                        Suspended("createToken", Len(tokens) + 1, ambulanceId, TRUE)]
          /\ UNCHANGED <<ambulances, local, last, scope, engine, page>>

\* second half: link the ambulance to the new token, result of the write not inspected
createTokenLink(c, err) ==
  /\ call[c].op = "createToken"
  /\ ambulances' = AmbulancesAfterUpdate(c, call[c].ambulance,
                     [active_token_id |-> Some(call[c].token),
                      emergency_status |-> "active"], err)
  /\ call' = [call EXCEPT ![c] = Idle]
  /\ last' = Returned("createToken", "token", "none")
  /\ UNCHANGED <<channel, tokens, local, scope, engine, page>>

(* ---- createHospitalEmergency ---- *)
\* the row inserted by the hospital: facility, both legs, the legacy mirror, route_selected
HospitalEmergencyRow(c, ambulanceId, pickup, origin, hospitalId, facility, routeToPatient, routeToHospital, now) ==
  Patch(NewToken(ambulanceId, pickup, origin),
    [ hospital_id |-> IF isUuid(hospitalId) THEN Some(hospitalId) ELSE user[c],
      hospital_name |-> Some(facility.name),
      hospital_lat |-> Some(facility.lat),
      hospital_lng |-> Some(facility.lng),
      route_to_patient |-> Some(JsonCopy(routeToPatient)),
      route_to_patient_distance_meters |-> Some(routeToPatient.distance),
      route_to_patient_duration_seconds |-> Some(routeToPatient.duration),
      route_to_hospital |-> Some(JsonCopy(routeToHospital)),
      route_to_hospital_distance_meters |-> Some(routeToHospital.distance),
      route_to_hospital_duration_seconds |-> Some(routeToHospital.duration),
      selected_route |-> Some(JsonCopy(routeToPatient)),
      route_type |-> Some(routeToPatient.type),
      route_distance_meters |-> Some(routeToPatient.distance + routeToHospital.distance),
      route_duration_seconds |-> Some(routeToPatient.duration + routeToHospital.duration),
      status |-> "route_selected",
      assigned_at |-> Some(now) ])

createHospitalEmergency(c, ambulanceId, pickup, origin, hospitalId, facility, routeToPatient, routeToHospital, now, err) ==
  /\ call[c] = Idle
  /\ IF ~isHospitalUser(c) \/ err \/ ~TokenInsertPolicy(c, ambulanceId)
     THEN /\ last' = Returned("createHospitalEmergency", "null",
                              IF ~isHospitalUser(c) THEN "none"
                              ELSE IF err THEN "upstream" ELSE "rls")
          /\ UNCHANGED <<channel, tokens, ambulances, local, call, scope, engine, page>>
     ELSE /\ Len(tokens) < scope.rows
          /\ tokens' = TokensAfterInsert(
                         HospitalEmergencyRow(c, ambulanceId, pickup, origin, hospitalId,
                                              facility, routeToPatient, routeToHospital, now))
          /\ Publish("INSERT", {Len(tokens) + 1})
          /\ call' = [call EXCEPT ![c] =
                        Suspended("createHospitalEmergency", Len(tokens) + 1, ambulanceId,
                                  TRUE)]
          /\ UNCHANGED <<ambulances, local, last, scope, engine, page>>

createHospitalEmergencyLink(c, err) ==
  /\ call[c].op = "createHospitalEmergency"
  /\ ambulances' = AmbulancesAfterUpdate(c, call[c].ambulance,
                     [active_token_id |-> Some(call[c].token),
                      emergency_status |-> "active"], err)
  /\ call' = [call EXCEPT ![c] = Idle]
  /\ last' = Returned("createHospitalEmergency", "token", "none")
  /\ UNCHANGED <<channel, tokens, local, scope, engine, page>>

(* ---- assignHospitalWithRoutes ---- *)
AssignPatch(c, hospitalId, facility, routeToPatient, routeToHospital, now) ==
  [ hospital_id |-> IF isUuid(hospitalId) THEN Some(hospitalId) ELSE user[c],
    hospital_name |-> Some(facility.name),
    hospital_lat |-> Some(facility.lat),
    hospital_lng |-> Some(facility.lng),
    route_to_patient |-> Some(JsonCopy(routeToPatient)),
    route_to_patient_distance_meters |-> Some(routeToPatient.distance),
    route_to_patient_duration_seconds |-> Some(routeToPatient.duration),
    route_to_hospital |-> Some(JsonCopy(routeToHospital)),
    route_to_hospital_distance_meters |-> Some(routeToHospital.distance),
    route_to_hospital_duration_seconds |-> Some(routeToHospital.duration),
    selected_route |-> Some(JsonCopy(routeToPatient)),
    route_type |-> Some(routeToPatient.type),
    route_distance_meters |-> Some(routeToPatient.distance + routeToHospital.distance),
    route_duration_seconds |-> Some(routeToPatient.duration + routeToHospital.duration),
    status |-> "route_selected",
    assigned_at |-> Some(now) ]

\* the check `if (error) throw error` alone, without `|| !data`
RowReturnedUnlessError(c, tokenId, err) == ~err

\* .select('*').single() hands back a row exactly when the update touched one
RowReturned(c, tokenId, err) == ~err /\ UpdatedRows(c, tokenId) # {}

assignHospitalWithRoutes(c, tokenId, hospitalId, facility, routeToPatient, routeToHospital, now, err) ==
  /\ call[c] = Idle
  /\ IF user[c] = NULL
     THEN /\ last' = Returned("assignHospitalWithRoutes", "false", "none")
          /\ UNCHANGED <<channel, tokens, ambulances, local, call, scope, engine, page>>
     ELSE /\ tokens' = TokensAfterUpdate(c, tokenId,
                         AssignPatch(c, hospitalId, facility, routeToPatient,
                                     routeToHospital, now), err)
          /\ Publish("UPDATE", Touched(c, tokenId, err))
          /\ local' = IF RowReturned(c, tokenId, err)
                       THEN [local EXCEPT ![c] =
                               LocalAfterUpdate(c, {tokens'[i] : i \in UpdatedRows(c, tokenId)})]
                       ELSE local
          /\ last' = Returned("assignHospitalWithRoutes",
                              IF RowReturned(c, tokenId, err) THEN "true" ELSE "false",
                              SingleError(c, tokenId, err))
          /\ UNCHANGED <<ambulances, call, scope, engine, page>>

(* ---- operations that write one token row and inspect only `error` ---- *)
\* update(patch).eq('id', tokenId); if (error) throw error; return true
WriteToken(c, op, tokenId, patch, err) ==
  /\ call[c] = Idle
  /\ tokens' = TokensAfterUpdate(c, tokenId, patch, err)
  /\ Publish("UPDATE", Touched(c, tokenId, err))
  /\ last' = Returned(op, IF err THEN "false" ELSE "true", UpdateError(err))
  /\ UNCHANGED <<ambulances, local, call, scope, engine, page>>

\* legacy: hospital_id is written as given; the uuid column rejects a non-uuid
assignHospital(c, tokenId, hospitalId, facility, now, err) ==
  WriteToken(c, "assignHospital", tokenId,
    [ hospital_id |-> Some(hospitalId),
      hospital_name |-> Some(facility.name),
      hospital_lat |-> Some(facility.lat),
      hospital_lng |-> Some(facility.lng),
      status |-> "assigned",
      assigned_at |-> Some(now) ], err \/ ~isUuid(hospitalId))

setRoute(c, tokenId, route, err) ==
  WriteToken(c, "setRoute", tokenId,
    [ selected_route |-> Some(JsonCopy(route)),
      route_type |-> Some(route.type),
      route_distance_meters |-> Some(route.distance),
      route_duration_seconds |-> Some(route.duration),
      status |-> "route_selected" ], err)

startJourney(c, tokenId, now, err) ==
  WriteToken(c, "startJourney", tokenId,
    [status |-> "in_progress", started_at |-> Some(now)], err)

arrivedAtPatient(c, tokenId, now, err) ==
  WriteToken(c, "arrivedAtPatient", tokenId,
    [status |-> "at_patient", arrived_at_patient_at |-> Some(now)], err)

\* the update that also resets the pickup position
startToHospitalResetsPickup(c, tokenId, err) ==
  WriteToken(c, "startToHospital", tokenId,
    [status |-> "to_hospital", pickup_lat |-> 0, pickup_lng |-> 0], err)

startToHospital(c, tokenId, err) ==
  WriteToken(c, "startToHospital", tokenId, [status |-> "to_hospital"], err)

(* ---- completeEmergency / cancelEmergency: two awaited writes, neither result inspected ---- *)
completeEmergency(c, tokenId, ambulanceId, now, err) ==
  /\ call[c] = Idle
  /\ tokens' = TokensAfterUpdate(c, tokenId,
                 [status |-> "completed", completed_at |-> Some(now)], err)
  /\ Publish("UPDATE", Touched(c, tokenId, err))
  /\ call' = [call EXCEPT ![c] =
                Suspended("completeEmergency", tokenId, ambulanceId, Written(c, tokenId, err))]
  /\ UNCHANGED <<ambulances, local, last, scope, engine, page>>

cancelEmergency(c, tokenId, ambulanceId, err) ==
  /\ call[c] = Idle
  /\ tokens' = TokensAfterUpdate(c, tokenId, [status |-> "cancelled"], err)
  /\ Publish("UPDATE", Touched(c, tokenId, err))
  /\ call' = [call EXCEPT ![c] =
                Suspended("cancelEmergency", tokenId, ambulanceId, Written(c, tokenId, err))]
  /\ UNCHANGED <<ambulances, local, last, scope, engine, page>>

\* second await of both: clear the ambulance, setActiveToken(null), return true
clearAmbulance(c, err) ==
  /\ call[c].op \in {"completeEmergency", "cancelEmergency"}
  /\ ambulances' = AmbulancesAfterUpdate(c, call[c].ambulance,
                     [active_token_id |-> NULL, emergency_status |-> "inactive"], err)
  /\ local' = [local EXCEPT ![c].activeToken = NULL]
  /\ call' = [call EXCEPT ![c] = Idle]
  /\ last' = Returned(call[c].op, "true", "none")
  /\ UNCHANGED <<channel, tokens, scope, engine, page>>

(* ---- releaseAmbulance ---- *)
\* tokens.find(t => t.ambulance_id === ambulanceId && [...active...].includes(t.status))
\* over the caller's React state
activeAmbulanceToken(c, ambulanceId) ==
  LET list == local[c].tokens
      hit(i) == list[i].ambulance_id = ambulanceId /\ list[i].status \in ACTIVE_TOKEN_STATUSES
  IN  IF \E i \in DOMAIN list : hit(i)
      THEN Some(list[CHOOSE i \in DOMAIN list : hit(i) /\ \A j \in 1..(i - 1) : ~hit(j)])
      ELSE NULL

\* the ambulance write of releaseAmbulance: on error it returns false, else it goes on
\* to the refetch
ReleaseClear(c, ambulanceId, err) ==
  /\ ambulances' = AmbulancesAfterUpdate(c, ambulanceId,
                     [active_token_id |-> NULL, emergency_status |-> "inactive"], err)
  /\ IF err
     THEN /\ call' = [call EXCEPT ![c] = Idle]
          /\ last' = Returned("releaseAmbulance", "false", "upstream")
     ELSE /\ call' = [call EXCEPT ![c] =
                        Suspended("releaseAmbulance", 0, ambulanceId, FALSE)]
          /\ UNCHANGED last

\* up to the first await: the cancel of the token found, or at once the ambulance write
releaseAmbulance(c, ambulanceId, err) ==
  /\ call[c] = Idle
  /\ c \in scope.views
  /\ IF activeAmbulanceToken(c, ambulanceId) # NULL
     THEN LET id == activeAmbulanceToken(c, ambulanceId)[1].id
          IN  /\ tokens' = TokensAfterUpdate(c, id, [status |-> "cancelled"], err)
              /\ Publish("UPDATE", Touched(c, id, err))
              /\ call' = [call EXCEPT ![c] =
                            Suspended("releaseAmbulance", id, ambulanceId, Written(c, id, err))]
              /\ UNCHANGED <<ambulances, last>>
     ELSE /\ ReleaseClear(c, ambulanceId, err)
          /\ UNCHANGED <<channel, tokens>>
  /\ UNCHANGED <<local, scope, engine, page>>

\* after the cancel: the ambulance write
releaseAmbulanceClear(c, err) ==
  /\ call[c].op = "releaseAmbulance" /\ call[c].token # 0
  /\ ReleaseClear(c, call[c].ambulance, err)
  /\ UNCHANGED <<channel, tokens, local, scope, engine, page>>

\* await fetchTokens(); return true
releaseAmbulanceFetch(c, err) ==
  /\ call[c].op = "releaseAmbulance" /\ call[c].token = 0
  /\ local' = [local EXCEPT ![c] = LocalAfterFetch(c, err)]
  /\ call' = [call EXCEPT ![c] = Idle]
  /\ last' = Returned("releaseAmbulance", "true", "none")
  /\ UNCHANGED <<channel, tokens, ambulances, scope, engine, page>>

(* ---- fetchTokens: on mount, and exported as refreshTokens ---- *)
fetchTokens(c, err) ==
  /\ call[c] = Idle
  /\ c \in scope.views
  /\ local' = [local EXCEPT ![c] = LocalAfterFetch(c, err)]
  /\ UNCHANGED <<channel, tokens, ambulances, call, last, scope, engine, page>>

(* ---- declineEmergency ---- *)
\* the update without its decline_reason column
DeclinePatchWithoutReason(c, reason) ==
  [status |-> "declined", hospital_id |-> user[c]]

DeclinePatch(c, reason) ==
  [status |-> "declined", decline_reason |-> Some(reason), hospital_id |-> user[c]]

declineEmergency(c, tokenId, reason, err) ==
  /\ call[c] = Idle
  /\ IF user[c] = NULL \/ ~isHospitalUser(c)
     THEN /\ last' = Returned("declineEmergency", "false", "none")
          /\ UNCHANGED <<channel, tokens, ambulances, local, call, scope, engine, page>>
     ELSE /\ tokens' = TokensAfterUpdate(c, tokenId, DeclinePatch(c, reason), err)
          /\ Publish("UPDATE", Touched(c, tokenId, err))
          /\ local' = IF RowReturned(c, tokenId, err)
                       THEN [local EXCEPT ![c] =
                               LocalAfterUpdate(c, {tokens'[i] : i \in UpdatedRows(c, tokenId)})]
                       ELSE local
          /\ last' = Returned("declineEmergency",
                              IF RowReturned(c, tokenId, err) THEN "true" ELSE "false",
                              SingleError(c, tokenId, err))
          /\ UNCHANGED <<ambulances, call, scope, engine, page>>

(* ---- the realtime handler ---- *)
\* the test of the UPDATE branch with the wrong status literal
DeclineObservedAsCancelled(c, updatedToken) ==
  isAmbulanceDriver(c) /\ updatedToken.status = "cancelled"

\* if (isAmbulanceDriver && updatedToken.status === 'declined')
DeclineObserved(c, updatedToken) ==
  isAmbulanceDriver(c) /\ updatedToken.status = "declined"

\* (payload) => { ... }: the INSERT and UPDATE branches; no operation deletes a token,
\* so no DELETE event is ever sent.  The ambulance write of a driver's handler on a
\* declined token is issued without await and lands later (clearAfterDecline).
onPostgresChanges(c) ==
  /\ channel[c].events # <<>>
  /\ LET payload == Head(channel[c].events)
         declined == payload.eventType = "UPDATE" /\ DeclineObserved(c, payload.new)
     IN  /\ local' = [local EXCEPT ![c] =
                        IF payload.eventType = "INSERT"
                        THEN [tokens |-> <<payload.new>> \o local[c].tokens,
                              activeToken |->
                                findActiveToken(<<payload.new>> \o local[c].tokens)]
                        ELSE LocalAfterUpdate(c, {payload.new})]
         /\ channel' = [channel EXCEPT ![c] =
                          [events |-> Tail(@.events),
                           clearing |-> IF declined
                                        THEN @.clearing \cup
                                               {[id |-> payload.new.id,
                                                 ambulance_id |-> payload.new.ambulance_id]}
                                        ELSE @.clearing]]
  /\ UNCHANGED <<tokens, ambulances, call, last, scope, engine, page>>

\* mutation of DeclineClearRows: .eq('active_token_id', updatedToken.id) is left out
DeclineClearRowsAnyToken(c, updatedToken) ==
  {a \in Ambulances : a = updatedToken.ambulance_id /\ AmbulanceUpdatePolicy(c, a)}

\* .eq('id', updatedToken.ambulance_id).eq('active_token_id', updatedToken.id)
DeclineClearRows(c, updatedToken) ==
  {a \in Ambulances :
     /\ a = updatedToken.ambulance_id
     /\ ambulances[a].active_token_id = Some(updatedToken.id)
     /\ AmbulanceUpdatePolicy(c, a)}

\* the ambulance write issued by the handler reaches the store; its error is only logged
clearAfterDecline(c, updatedToken, err) ==
  /\ updatedToken \in channel[c].clearing
  /\ ambulances' = [a \in Ambulances |->
                      IF ~err /\ a \in DeclineClearRows(c, updatedToken)
                      THEN Patch(ambulances[a],
                                 [active_token_id |-> NULL,
                                  emergency_status |-> "inactive"])
                      ELSE ambulances[a]]
  /\ channel' = [channel EXCEPT ![c].clearing = @ \ {updatedToken}]
  /\ last' = Returned("clearAfterDecline", "void", UpdateError(err))
  /\ UNCHANGED <<tokens, local, call, scope, engine, page>>

\* the operations that read no React state
StoreNext ==
  \/ \E c \in Clients, a \in Ambulances, p \in Pickups, o \in Origins, err \in BOOLEAN :
       createToken(c, a, p, o, err)
  \/ \E c \in Clients, err \in BOOLEAN : createTokenLink(c, err)
  \/ \E c \in Clients, a \in Ambulances, p \in Pickups, o \in Origins,
        h \in Inputs(HospitalIds, {"hospital_id"}), f \in Facilities,
        r1 \in Inputs(Routes, LegOneColumns \cup MirrorColumns),
        r2 \in Inputs(Routes, LegTwoColumns \cup MirrorColumns),
        now \in Inputs(Now, {"assigned_at"}), err \in BOOLEAN :
       createHospitalEmergency(c, a, p, o, h, f, r1, r2, now, err)
  \/ \E c \in Clients, err \in BOOLEAN : createHospitalEmergencyLink(c, err)
  \/ \E c \in Clients, t \in TokenIds,
        h \in Inputs(HospitalIds, {"hospital_id"}), f \in Facilities,
        r1 \in Inputs(Routes, LegOneColumns \cup MirrorColumns),
        r2 \in Inputs(Routes, LegTwoColumns \cup MirrorColumns),
        now \in Inputs(Now, {"assigned_at"}), err \in BOOLEAN :
       assignHospitalWithRoutes(c, t, h, f, r1, r2, now, err)
  \/ \E c \in Clients, t \in TokenIds, h \in HospitalIds, f \in Facilities,
        now \in Inputs(Now, {"assigned_at"}), err \in BOOLEAN :
       assignHospital(c, t, h, f, now, err)
  \/ \E c \in Clients, t \in TokenIds, r \in Inputs(Routes, MirrorColumns), err \in BOOLEAN :
       setRoute(c, t, r, err)
  \/ \E c \in Clients, t \in TokenIds, now \in Inputs(Now, {"started_at"}), err \in BOOLEAN :
       startJourney(c, t, now, err)
  \/ \E c \in Clients, t \in TokenIds, now \in Inputs(Now, {"arrived_at_patient_at"}),
        err \in BOOLEAN :
       arrivedAtPatient(c, t, now, err)
  \/ \E c \in Clients, t \in TokenIds, err \in BOOLEAN : startToHospital(c, t, err)
  \/ \E c \in Clients, t \in TokenIds, a \in Ambulances,
        now \in Inputs(Now, {"completed_at"}), err \in BOOLEAN :
       completeEmergency(c, t, a, now, err)
  \/ \E c \in Clients, t \in TokenIds, a \in Ambulances, err \in BOOLEAN :
       cancelEmergency(c, t, a, err)
  \/ \E c \in Clients, err \in BOOLEAN : clearAmbulance(c, err)
  \/ \E c \in Clients, t \in TokenIds, reason \in Inputs(Reasons, {"decline_reason"}),
        err \in BOOLEAN :
       declineEmergency(c, t, reason, err)

\* every operation of the hook
Next ==
  \/ StoreNext
  \/ \E c \in Clients, a \in Ambulances, err \in BOOLEAN : releaseAmbulance(c, a, err)
  \/ \E c \in Clients, err \in BOOLEAN : releaseAmbulanceClear(c, err)
  \/ \E c \in Clients, err \in BOOLEAN : releaseAmbulanceFetch(c, err)
  \/ \E c \in Clients, err \in BOOLEAN : fetchTokens(c, err)

(* ---- strings: a text is the sequence of its characters ---- *)
UpperCase ==
  <<"A", "B", "C", "D", "E", "F", "G", "H", "I", "J", "K", "L", "M", "N", "O", "P", "Q", "R", "S", "T", "U", "V", "W", "X", "Y", "Z">>
LowerCase ==
  <<"a", "b", "c", "d", "e", "f", "g", "h", "i", "j", "k", "l", "m", "n", "o", "p", "q", "r", "s", "t", "u", "v", "w", "x", "y", "z">>

\* String.prototype.toLowerCase
toLowerCase(text) ==
  SubSeq([i \in DOMAIN text |->
            IF \E k \in DOMAIN UpperCase : UpperCase[k] = text[i]
            THEN LowerCase[CHOOSE k \in DOMAIN UpperCase : UpperCase[k] = text[i]]
            ELSE text[i]],
         1, Len(text))

\* String.prototype.includes
includes(text, word) ==
  \E i \in 0..(Len(text) - Len(word)) : \A j \in 1..Len(word) : text[i + j] = word[j]

(* ---- HospitalCapacityEngine ---- *)
\* the one facility whose capacity is asked for, under each kind of name
NameIvyHospital == <<"I", "v", "y", " ", "H", "o", "s", "p", "i", "t", "a", "l">>
EngineNames ==
  {<<"C", "i", "v", "i", "l", " ", "H", "o", "s", "p", "i", "t", "a", "l">>,
   <<"M", "a", "x", " ", "S", "u", "p", "e", "r", " ", "S", "p", "e", "c", "i", "a", "l", "i", "t", "y">>,
   NameIvyHospital}

\* Math.random() yields Random / RandomDenominator: 0 and 0.75
RandomDenominator == 4
Random == {0, 3}
\* Math.floor(Math.random() * n)
FloorRandom(r, n) == (r * n) \div RandomDenominator
\* Math.round((part / whole) * 100)
RoundPercent(part, whole) == (200 * part + whole) \div (2 * whole)
\* a Math.max that hands back its second argument
MathMaxSecond(a, b) == b

MathMax(a, b) == IF a >= b THEN a ELSE b
MathMin(a, b) == IF a <= b THEN a ELSE b

getHospitalType(hospitalName) ==
  LET name == toLowerCase(hospitalName)
  IN  IF \/ includes(name, <<"g", "o", "v", "e", "r", "n", "m", "e", "n", "t">>)
         \/ includes(name, <<"c", "i", "v", "i", "l">>)
         \/ includes(name, <<"d", "i", "s", "t", "r", "i", "c", "t">>)
      THEN "government"
      ELSE IF \/ includes(name, <<"s", "u", "p", "e", "r">>)
              \/ includes(name, <<"m", "a", "x">>)
              \/ includes(name, <<"a", "p", "o", "l", "l", "o">>)
              \/ includes(name, <<"f", "o", "r", "t", "i", "s">>)
      THEN "private_super"
      ELSE "private"

\* the record initializeHospitalCapacity builds; r holds its six Math.random() results
\* in call order
NewCapacity(hospitalName, r) ==
  LET type == getHospitalType(hospitalName)
      total_beds == IF type = "government" THEN FloorRandom(r[1], 100) + 200
                    ELSE IF type = "private_super" THEN FloorRandom(r[1], 150) + 150
                    ELSE FloorRandom(r[1], 80) + 50
      icu_beds == IF type = "government" THEN FloorRandom(r[2], 20) + 30
                  ELSE IF type = "private_super" THEN FloorRandom(r[2], 25) + 25
                  ELSE FloorRandom(r[2], 15) + 10
      \* Math.floor(total_beds * (0.4 + Math.random() * 0.4))
      occupied_beds ==
        (total_beds * (4 * RandomDenominator + 4 * r[3])) \div (10 * RandomDenominator)
      \* Math.floor(icu_beds * (0.3 + Math.random() * 0.5))
      occupied_icu ==
        (icu_beds * (3 * RandomDenominator + 5 * r[4])) \div (10 * RandomDenominator)
  IN  [ total_beds |-> total_beds,
        available_beds |-> total_beds - occupied_beds,
        icu_beds |-> icu_beds,
        icu_available |-> icu_beds - occupied_icu,
        occupied_beds |-> occupied_beds,
        \* Math.random() > 0.7 ? Math.floor(Math.random() * 3) + 1 : 0
        incoming_ambulances |-> IF 10 * r[5] > 7 * RandomDenominator
                                THEN FloorRandom(r[6], 3) + 1 ELSE 0,
        occupancy_percentage |-> RoundPercent(occupied_beds, total_beds) ]

\* the record updateHospitalCapacity stores; r holds its three Math.random() results
UpdatedCapacity(current, r) ==
  LET bedChange == FloorRandom(r[1], 7) - 3
      newAvailableBeds == MathMax(0, MathMin(current.total_beds, current.available_beds + bedChange))
      icuChange == FloorRandom(r[2], 3) - 1
      newIcuAvailable == MathMax(0, MathMin(current.icu_beds, current.icu_available + icuChange))
      ambulanceChange == FloorRandom(r[3], 3) - 1
      newIncomingAmbulances == MathMax(0, current.incoming_ambulances + ambulanceChange)
      occupied_beds == current.total_beds - newAvailableBeds
  IN  [current EXCEPT !.available_beds = newAvailableBeds,
                      !.icu_available = newIcuAvailable,
                      !.occupied_beds = occupied_beds,
                      !.incoming_ambulances = newIncomingAmbulances,
                      !.occupancy_percentage = RoundPercent(occupied_beds, current.total_beds)]

CapacityFields ==
  <<"total_beds", "available_beds", "icu_beds", "icu_available", "occupied_beds",
    "incoming_ambulances", "occupancy_percentage">>

\* JSON.stringify(Object.fromEntries(capacityMap)): the entries, each a key and the
\* name/value pairs of its object
JsonStringify(capacityMap) ==
  LET n == Cardinality(DOMAIN capacityMap)
      keys == CHOOSE k \in [1..n -> DOMAIN capacityMap] :
                \A i, j \in 1..n : i # j => k[i] # k[j]
  IN  [i \in 1..n |->
         <<keys[i], [f \in DOMAIN CapacityFields |->
                       <<CapacityFields[f], capacityMap[keys[i]][CapacityFields[f]]>>]>>]

\* new Map(Object.entries(JSON.parse(stored)))
JsonParse(stored) ==
  LET entry(key) == CHOOSE e \in {stored[i] : i \in DOMAIN stored} : e[1] = key
      value(pairs, name) == (CHOOSE p \in {pairs[i] : i \in DOMAIN pairs} : p[1] = name)[2]
  IN  [key \in {stored[i][1] : i \in DOMAIN stored} |->
         [name \in {CapacityFields[f] : f \in DOMAIN CapacityFields} |->
            value(entry(key)[2], name)]]

\* a save that writes nothing
saveToStorageSkipped(e) == e

\* localStorage.setItem accepts the item
saveToStorage(e) == [e EXCEPT !.localStorage = Some(JsonStringify(e.capacityMap))]

\* if (stored) this.capacityMap = new Map(...); a fresh instance starts with an empty map
loadFromStorage(localStorage) ==
  IF localStorage = NULL THEN <<>> ELSE JsonParse(localStorage[1])

\* getCapacity(hospitalId, hospitalName): a first access initializes and saves
getCapacity(hospitalId, hospitalName, r) ==
  /\ IF hospitalId \notin DOMAIN engine.capacityMap
     THEN engine' = saveToStorage(
                      [engine EXCEPT !.capacityMap =
                         [id \in DOMAIN @ \cup {hospitalId} |->
                            IF id = hospitalId THEN NewCapacity(hospitalName, r)
                            ELSE @[id]]])
     ELSE UNCHANGED engine
  /\ UNCHANGED <<tokenVars, page>>

\* the setInterval callback: every known facility is updated, then the map is saved
tick(r) ==
  /\ engine.intervalId # NULL
  /\ \A id \in DOMAIN engine.capacityMap :
       UpdatedCapacity(engine.capacityMap[id], r[id]).incoming_ambulances
         <= MathMax(MaxIncoming, engine.capacityMap[id].incoming_ambulances)
  /\ engine' = saveToStorage(
                 [engine EXCEPT !.capacityMap =
                    [id \in DOMAIN @ |-> UpdatedCapacity(@[id], r[id])]])
  /\ UNCHANGED <<tokenVars, page>>

\* the page is reloaded: the module is evaluated again and constructs a new engine,
\* constructor() { this.loadFromStorage(); this.startSimulation(); }
constructor ==
  /\ engine' = [capacityMap |-> loadFromStorage(engine.localStorage),
                localStorage |-> engine.localStorage,
                intervalId |-> Some(1),
                reloaded |-> TRUE]
  /\ UNCHANGED <<tokenVars, page>>

destroy ==
  /\ engine.intervalId # NULL
  /\ engine' = [engine EXCEPT !.intervalId = NULL]
  /\ UNCHANGED <<tokenVars, page>>

\* the Math.random() results of a getCapacity call: none is drawn for a known facility
Draws(hospitalId) ==
  IF hospitalId \in DOMAIN engine.capacityMap THEN {[i \in 1..6 |-> 0]}
  ELSE [1..6 -> Random]

\* first accesses under every kind of name, and ticks
CapacityNext ==
  \/ \E hospitalId \in {"h1"}, hospitalName \in EngineNames :
       \E r \in Draws(hospitalId) : getCapacity(hospitalId, hospitalName, r)
  \/ \E r \in [DOMAIN engine.capacityMap -> [1..3 -> Random]] : tick(r)

\* a private hospital's first access, ticks, page reloads and destroy()
EngineNext ==
  \/ \E hospitalId \in {"h1"} :
       \E r \in Draws(hospitalId) : getCapacity(hospitalId, NameIvyHospital, r)
  \/ \E r \in [DOMAIN engine.capacityMap -> [1..3 -> Random]] : tick(r)
  \/ constructor
  \/ destroy

(* ---- useHospitalSpecialties: specialty inference and recommendation ---- *)
\* the vocabulary, in the order Object.entries enumerates it: a specialty and its keywords
SPECIALTY_KEYWORDS ==
  <<    [specialty |-> "Cardiac", keywords |->
       <<<<"c", "a", "r", "d", "i", "o", "l", "o", "g", "y">>,
         <<"h", "e", "a", "r", "t">>,
         <<"c", "a", "r", "d", "i", "a", "c">>,
         <<"c", "a", "t", "h", " ", "l", "a", "b">>,
         <<"c", "a", "r", "d", "i", "o", "v", "a", "s", "c", "u", "l", "a", "r">>>>],
    [specialty |-> "Oncology", keywords |->
       <<<<"c", "a", "n", "c", "e", "r">>,
         <<"o", "n", "c", "o", "l", "o", "g", "y">>,
         <<"c", "h", "e", "m", "o", "t", "h", "e", "r", "a", "p", "y">>,
         <<"r", "a", "d", "i", "a", "t", "i", "o", "n">>,
         <<"t", "u", "m", "o", "r">>>>],
    [specialty |-> "Neuro", keywords |->
       <<<<"n", "e", "u", "r", "o", "l", "o", "g", "y">>,
         <<"s", "t", "r", "o", "k", "e">>,
         <<"b", "r", "a", "i", "n">>,
         <<"n", "e", "u", "r", "o", "l", "o", "g", "i", "c", "a", "l">>,
         <<"n", "e", "u", "r", "o">>>>],
    [specialty |-> "Trauma", keywords |->
       <<<<"t", "r", "a", "u", "m", "a">>,
         <<"e", "m", "e", "r", "g", "e", "n", "c", "y">>,
         <<"a", "c", "c", "i", "d", "e", "n", "t">>,
         <<"s", "u", "r", "g", "e", "r", "y">>,
         <<"i", "c", "u">>>>],
    [specialty |-> "Maternity", keywords |->
       <<<<"m", "a", "t", "e", "r", "n", "i", "t", "y">>,
         <<"o", "b", "s", "t", "e", "t", "r", "i", "c", "s">>,
         <<"g", "y", "n", "e", "c", "o", "l", "o", "g", "y">>,
         <<"n", "e", "o", "n", "a", "t", "a", "l">>,
         <<"d", "e", "l", "i", "v", "e", "r", "y">>>>],
    [specialty |-> "Orthopedics", keywords |->
       <<<<"o", "r", "t", "h", "o", "p", "e", "d", "i", "c">>,
         <<"b", "o", "n", "e">>,
         <<"j", "o", "i", "n", "t">>,
         <<"f", "r", "a", "c", "t", "u", "r", "e">>,
         <<"s", "p", "i", "n", "e">>>>],
    [specialty |-> "Pediatric", keywords |->
       <<<<"p", "e", "d", "i", "a", "t", "r", "i", "c">>,
         <<"c", "h", "i", "l", "d", "r", "e", "n">>,
         <<"n", "i", "c", "u">>,
         <<"c", "h", "i", "l", "d">>,
         <<"i", "n", "f", "a", "n", "t">>>>],
    [specialty |-> "Respiratory", keywords |->
       <<<<"p", "u", "l", "m", "o", "n", "a", "r", "y">>,
         <<"r", "e", "s", "p", "i", "r", "a", "t", "o", "r", "y">>,
         <<"l", "u", "n", "g">>,
         <<"b", "r", "e", "a", "t", "h", "i", "n", "g">>,
         <<"v", "e", "n", "t", "i", "l", "a", "t", "o", "r">>>>]
  >>

Vocabulary == {SPECIALTY_KEYWORDS[i].specialty : i \in DOMAIN SPECIALTY_KEYWORDS}

\* SPECIALTY_KEYWORDS[emergencyKeyword] || []
KeywordsOf(emergencyKeyword) ==
  IF emergencyKeyword \in Vocabulary
  THEN SPECIALTY_KEYWORDS[CHOOSE i \in DOMAIN SPECIALTY_KEYWORDS :
                            SPECIALTY_KEYWORDS[i].specialty = emergencyKeyword].keywords
  ELSE <<>>

\* `${hospital.organization_name} ${hospital.address || ''}`.toLowerCase()
hospitalText(hospital) ==
  toLowerCase(hospital.organization_name \o <<" ">> \o
              (IF hospital.address = NULL THEN <<>> ELSE hospital.address[1]))

\* JSON.stringify of an update_data object whose values are strings: update_data is
\* the sequence of its (key, value) entries
QuotedJson(text) == <<"\"">> \o text \o <<"\"">>
RECURSIVE JsonEntries(_)
JsonEntries(update_data) ==
  IF update_data = <<>> THEN <<>>
  ELSE QuotedJson(update_data[1][1]) \o <<":">> \o QuotedJson(update_data[1][2]) \o
       (IF Len(update_data) = 1 THEN <<>> ELSE <<",">> \o JsonEntries(Tail(update_data)))
JsonStringifyData(update_data) == <<"{">> \o JsonEntries(update_data) \o <<"}">>

\* the number of positions of `list` whose element satisfies the test, counted as
\* forEach visits them
RECURSIVE CountIncluded(_, _)
CountIncluded(text, keywords) ==
  IF keywords = <<>> THEN 0
  ELSE (IF includes(text, Head(keywords)) THEN 1 ELSE 0) + CountIncluded(text, Tail(keywords))

\* recentUpdates.forEach(update => keywords.forEach(...)): the (update, keyword) pairs
\* whose keyword occurs in the lower-cased serialized update_data
RECURSIVE CountInUpdates(_, _)
CountInUpdates(recentUpdates, keywords) ==
  IF recentUpdates = <<>> THEN 0
  ELSE CountIncluded(toLowerCase(JsonStringifyData(Head(recentUpdates).update_data)), keywords)
       + CountInUpdates(Tail(recentUpdates), keywords)

\* mutation of analyzeSpecialties: the recent updates are not looked at
analyzeSpecialtiesNameOnly(hospital, recentUpdates) ==
  LET kept == SelectSeq(SPECIALTY_KEYWORDS,
                        LAMBDA e : 2 * CountIncluded(hospitalText(hospital), e.keywords) >= 2)
  IN  [specialties |-> [i \in DOMAIN kept |-> kept[i].specialty]]

\* analyzeSpecialties: score += 2 per keyword in the name and address, += 3 per keyword
\* of an update; a specialty is pushed when score >= 2. `reasons` has one text per
\* pushed specialty and is not modelled
analyzeSpecialties(hospital, recentUpdates) ==
  LET score(keywords) == 2 * CountIncluded(hospitalText(hospital), keywords)
                         + 3 * CountInUpdates(recentUpdates, keywords)
      kept == SelectSeq(SPECIALTY_KEYWORDS, LAMBDA e : score(e.keywords) >= 2)
  IN  [specialties |-> [i \in DOMAIN kept |-> kept[i].specialty]]

\* Array.prototype.includes on an array of strings
ArrayIncludes(array, value) == \E i \in DOMAIN array : array[i] = value

\* calculateDistance (haversine, R = 6371000) rounded to whole metres, tabulated for the
\* positions used: the patient at Chandigarh Sector 17 (30.7333, 76.7794) or at
\* Connaught Place, Delhi (28.6315, 77.2167); the hospital at the position
\* DEFAULT_HOSPITALS gives PGIMER Chandigarh, Fortis Hospital Mohali, AIIMS Delhi,
\* Apollo Delhi or SMS Hospital Jaipur
Patients == {"chandigarh", "delhi"}
calculateDistance(patient, location) ==
  IF patient = "chandigarh"
  THEN CASE location = "pgimer" -> 3532 [] location = "fortis" -> 8719
         [] location = "aiims" -> 244426 [] location = "apollo" -> 245617
         [] location = "sms" -> 435712
  ELSE CASE location = "pgimer" -> 241016 [] location = "fortis" -> 236987
         [] location = "aiims" -> 7180 [] location = "apollo" -> 9280
         [] location = "sms" -> 237308

\* hospital.specialties || [], replaced by a default chosen from the name when empty
SpecialtiesOrDefault(hospital) ==
  LET specialties == IF hospital.specialties = NULL THEN <<>> ELSE hospital.specialties[1]
      hospitalName == toLowerCase(hospital.organization_name)
  IN  IF Len(specialties) # 0 THEN specialties
      ELSE IF includes(hospitalName, <<"p", "g", "i", "m", "e", "r">>) \/ includes(hospitalName, <<"a", "i", "i", "m", "s">>)
      THEN <<"Cardiac", "Neuro", "Trauma", "Oncology", "Pediatric">>
      ELSE IF \/ includes(hospitalName, <<"f", "o", "r", "t", "i", "s">>) \/ includes(hospitalName, <<"m", "a", "x">>)
              \/ includes(hospitalName, <<"a", "p", "o", "l", "l", "o">>)
      THEN <<"Cardiac", "Trauma", "Orthopedics", "Maternity">>
      ELSE IF includes(hospitalName, <<"g", "m", "c", "h">>) \/ includes(hospitalName, <<"s", "m", "s">>)
      THEN <<"Trauma", "Maternity", "Pediatric">>
      ELSE <<"Trauma", "Cardiac">>

\* one element of `matches`. Scores are in thousandths of a point, so that the distance
\* bonus 50 - distance / 1000 is the integer 50000 - distance (distance in metres)
SpecialtyMatch(hospital, patient, emergencyKeyword) ==
  LET distance == calculateDistance(patient, hospital.location)
      specialties == SpecialtiesOrDefault(hospital)
      matchScore ==
        IF ArrayIncludes(specialties, emergencyKeyword) THEN 100000
        ELSE 20000 * CountIncluded(hospitalText(hospital), KeywordsOf(emergencyKeyword))
             + (IF ArrayIncludes(specialties, "Trauma") /\ emergencyKeyword # "Trauma"
                THEN 10000 ELSE 0)
      distanceScore == MathMax(0, 50000 - distance)
  IN  [hospital |-> hospital, specialties |-> specialties,
       matchScore |-> matchScore + distanceScore, distance |-> distance]

\* mutation of InsertSorted: the element goes behind the elements that compare equal
InsertSortedBehindEqual(x, sorted, compare) ==
  LET before == {i \in DOMAIN sorted : compare[sorted[i], x] <= 0}
      k == IF before = {} THEN 0 ELSE CHOOSE i \in before : \A j \in before : j <= i
  IN  SubSeq(sorted, 1, k) \o <<x>> \o SubSeq(sorted, k + 1, Len(sorted))

\* Array.prototype.sort is stable: x, which precedes every element of `sorted` in the
\* array, goes in front of the first element it does not have to follow
InsertSorted(x, sorted, compare) ==
  LET before == {i \in DOMAIN sorted : \A j \in 1..i : compare[sorted[j], x] < 0}
      k == Cardinality(before)
  IN  SubSeq(sorted, 1, k) \o <<x>> \o SubSeq(sorted, k + 1, Len(sorted))

\* [...matches].sort(compare); compare is the comparator as a function of two elements
RECURSIVE Sorted(_, _)
Sorted(array, compare) ==
  IF array = <<>> THEN <<>>
  ELSE InsertSorted(Head(array), Sorted(Tail(array), compare), compare)

\* findBestHospitals, on the hook's `hospitals`; `reason` is a display text, not modelled
findBestHospitals(hospitals, patient, emergencyKeyword) ==
  IF Len(hospitals) = 0 THEN [best |-> NULL, nearest |-> NULL]
  ELSE
    LET matches == SubSeq([i \in DOMAIN hospitals |->
                             SpecialtyMatch(hospitals[i], patient, emergencyKeyword)],
                          1, Len(hospitals))
        elements == {matches[i] : i \in DOMAIN matches}
        sortedByMatch ==
          Sorted(matches, [a \in elements, b \in elements |-> b.matchScore - a.matchScore])
        sortedByDistance ==
          Sorted(matches, [a \in elements, b \in elements |-> a.distance - b.distance])
    IN  [best |-> Some(sortedByMatch[1]), nearest |-> Some(sortedByDistance[1])]

(* ---- the hospitals the recommendation and the inference are applied to ---- *)
\* a Hospital as useHospitals builds it; `location` stands for location_lat, location_lng
Hospital(id, organization_name, address, specialties, location) ==
  [id |-> id, organization_name |-> organization_name, address |-> address,
   specialties |-> specialties, location |-> location]

\* a profiles row with stored specialties, placed where Fortis Hospital Mohali is
HeartCentre ==
  Hospital("db1", <<"C", "i", "t", "y", " ", "H", "e", "a", "r", "t", " ", "C", "e", "n", "t", "r", "e">>, Some(<<"P", "h", "a", "s", "e", " ", "8", " ", "M", "o", "h", "a", "l", "i">>), Some(<<"Neuro">>), "fortis")
\* five of DEFAULT_HOSPITALS (no address, no specialties) and the profiles row
RecommendHospitals ==
  {Hospital("01", <<"P", "G", "I", "M", "E", "R", " ", "C", "h", "a", "n", "d", "i", "g", "a", "r", "h">>, NULL, NULL, "pgimer"), Hospital("03", <<"F", "o", "r", "t", "i", "s", " ", "H", "o", "s", "p", "i", "t", "a", "l", " ", "M", "o", "h", "a", "l", "i">>, NULL, NULL, "fortis"), Hospital("20", <<"A", "I", "I", "M", "S", " ", "D", "e", "l", "h", "i">>, NULL, NULL, "aiims"), Hospital("26", <<"A", "p", "o", "l", "l", "o", " ", "D", "e", "l", "h", "i">>, NULL, NULL, "apollo"), Hospital("30", <<"S", "M", "S", " ", "H", "o", "s", "p", "i", "t", "a", "l", " ", "J", "a", "i", "p", "u", "r">>, NULL, NULL, "sms"),
   HeartCentre}

\* the emergency keywords a caller passes: three of the vocabulary and one outside it
EmergencyKeywords == {"Cardiac", "Maternity", "Neuro", "Burns"}

\* the sequences over `set` of length at most n
SeqUpTo(set, n) == UNION {[1..k -> set] : k \in 0..n}

\* a component calls findBestHospitals(patientLat, patientLng, emergencyKeyword)
callFindBestHospitals(patient, emergencyKeyword) ==
  /\ page' = [page EXCEPT !.result =
                Some([op |-> "findBestHospitals", patient |-> patient,
                      emergencyKeyword |-> emergencyKeyword,
                      value |-> findBestHospitals(page.hospitals, patient, emergencyKeyword)])]
  /\ UNCHANGED <<tokenVars, engine>>

RecommendNext ==
  \E patient \in Patients, emergencyKeyword \in EmergencyKeywords :
    callFindBestHospitals(patient, emergencyKeyword)

(* ---- two facilities at one place, one specialised and one with related words ---- *)
\* the words of `keywords` picked by `chosen`, each followed by a space
RECURSIVE WordsChosen(_, _, _)
WordsChosen(keywords, chosen, i) ==
  IF i > Len(keywords) THEN <<>>
  ELSE (IF i \in chosen THEN keywords[i] \o <<" ">> ELSE <<>>)
       \o WordsChosen(keywords, chosen, i + 1)

\* a profiles row whose stored specialties are just the requested one
Specialised(emergencyKeyword) ==
  Hospital("db1", <<"C", "i", "t", "y", " ", "H", "o", "s", "p", "i", "t", "a", "l">>, NULL, Some(<<emergencyKeyword>>), "fortis")

\* a profiles row that does not list the specialty: the chosen keywords of the specialty
\* make up its name, and it lists Trauma or not
Related(emergencyKeyword, chosen, trauma) ==
  Hospital("db2", WordsChosen(KeywordsOf(emergencyKeyword), chosen, 1) \o <<"H", "o", "s", "p", "i", "t", "a", "l">>,
           Some(<<"P", "h", "a", "s", "e", " ", "8", " ", "M", "o", "h", "a", "l", "i">>),
           Some(IF trauma THEN <<"Trauma">> ELSE <<"Oncology">>), "fortis")


(* ---- the hospitals and update records the inference is applied to ---- *)
ChildrenHospital ==
  Hospital("db3", <<"I", "C", "U", " ", "a", "n", "d", " ", "N", "I", "C", "U", " ", "C", "h", "i", "l", "d", "r", "e", "n", " ", "H", "o", "s", "p", "i", "t", "a", "l">>, Some(<<"S", "e", "c", "t", "o", "r", " ", "3", "2">>), NULL, "pgimer")
IvyHospital == Hospital("05", <<"I", "v", "y", " ", "H", "o", "s", "p", "i", "t", "a", "l">>, NULL, NULL, "fortis")
InferHospitals == {Hospital("db0", <<>>, NULL, NULL, "pgimer"), HeartCentre, ChildrenHospital, IvyHospital}

\* a hospital_updates row; update_data is a JSON object given by its entries
HospitalUpdate(hospital_id, update_type, update_data) ==
  [hospital_id |-> hospital_id, update_type |-> update_type, update_data |-> update_data]
InferUpdates ==
  {HospitalUpdate("db1", "department", <<<<<<"n", "a", "m", "e">>, <<"C", "a", "r", "d", "i", "o", "l", "o", "g", "y">>>>>>),
   HospitalUpdate("db1", "equipment", <<<<<<"i", "t", "e", "m">>, <<"V", "e", "n", "t", "i", "l", "a", "t", "o", "r">>>>, <<<<"w", "a", "r", "d">>, <<"I", "C", "U">>>>>>),
   HospitalUpdate("db3", "specialist", <<<<<<"s", "p", "i", "n", "e">>, <<"y", "e", "s">>>>>>),
   HospitalUpdate("db3", "capacity", <<<<<<"b", "e", "d", "s">>, <<"2", "0">>>>>>),
   HospitalUpdate("05", "accreditation", <<>>)}

\* a component calls analyzeSpecialties(hospital, recentUpdates) for a hospital of the list
callAnalyzeSpecialties(i) ==
  /\ i \in DOMAIN page.hospitals
  /\ page' = [page EXCEPT !.result =
                Some([op |-> "analyzeSpecialties", hospital |-> page.hospitals[i],
                      value |-> analyzeSpecialties(page.hospitals[i], page.recentUpdates)])]
  /\ UNCHANGED <<tokenVars, engine>>

InferNext == \E i \in 1..MaxHospitals : callAnalyzeSpecialties(i)

(* ---- fetchData: stored specialties are brought in line with the inferred ones ---- *)
\* Array.prototype.sort() without a comparator orders strings by their code units; for
\* the names of the vocabulary that is the alphabetical order
SortedNames(array) ==
  LET elements == {array[i] : i \in DOMAIN array}
      rank(name) == CHOOSE i \in DOMAIN <<"Cardiac", "Maternity", "Neuro", "Oncology", "Orthopedics", "Pediatric", "Respiratory", "Trauma">> : <<"Cardiac", "Maternity", "Neuro", "Oncology", "Orthopedics", "Pediatric", "Respiratory", "Trauma">>[i] = name
  IN  Sorted(array, [a \in elements, b \in elements |-> rank(a) - rank(b)])

\* the profiles table and its policies are not part of the sources: a signed-in user may
\* update their own profiles row, and the rows with role hospital are readable, which
\* is what useHospitals and the subscription with filter role=eq.hospital rely on
ProfileUpdatePolicy(signedIn, id) == signedIn = Some(id)
ProfileSelectPolicy(signedIn, id) == TRUE

\* useHospitals.fetchHospitals: the profiles rows with role hospital, then the default
\* hospitals whose name no row has (one default hospital is kept here)
fetchHospitals(dbHospitals) == dbHospitals \o <<IvyHospital>>

\* the first await of fetchData: the hospital_updates rows of the last 30 days, or
\* nothing when the select fails
FetchDataStarted(err) ==
  Some([updateData |-> IF err THEN <<>> ELSE page.recentUpdates, next |-> 1])

\* useEffect(() => { if (hospitals.length > 0) fetchData(); subscribe }, [fetchData, ...])
mount(err) ==
  /\ ~page.mounted
  /\ page' = [page EXCEPT !.mounted = TRUE,
                          !.fetching = IF Len(page.hospitals) > 0 THEN FetchDataStarted(err)
                                       ELSE NULL]
  /\ UNCHANGED <<tokenVars, engine>>

\* the postgres_changes handler for UPDATE on profiles: () => { fetchData(); }. A
\* notification is handled when the fetchData call before it has returned
onProfilesUpdate(err) ==
  /\ page.mounted
  /\ page.events > 0
  /\ page.fetching = NULL
  /\ page' = [page EXCEPT !.events = @ - 1, !.fetching = FetchDataStarted(err)]
  /\ UNCHANGED <<tokenVars, engine>>

\* updateHospitalSpecialties: the rows .eq('id', hospitalId).eq('role', 'hospital') that
\* the policy lets the signed-in user update
UpdatedProfiles(hospitalId, err) ==
  {id \in DOMAIN page.profiles :
     ~err /\ id = hospitalId /\ ProfileUpdatePolicy(page.user, id)}

\* one pass of `for (const hospital of hospitals)`, up to its await; after the last
\* hospital fetchData returns. The arrays compared by
\* JSON.stringify(specialties.sort()) !== JSON.stringify(currentSpecialties.sort()) are
\* sorted in place, so the hospital's list in the state is left sorted and the sorted
\* inferred list is what is written. Every row
\* written sends an UPDATE notification to the subscribed hook; the channel keeps at most
\* MaxEvents of them
fetchDataLoop(err) ==
  /\ page.fetching # NULL
  /\ LET f == page.fetching[1]
     IN  IF f.next > Len(page.hospitals)
         THEN page' = [page EXCEPT !.fetching = NULL]
         ELSE
           \E hospital \in {page.hospitals[f.next]} :
           \E inferred \in
                {analyzeSpecialties(hospital,
                   SelectSeq(f.updateData, LAMBDA u : u.hospital_id = hospital.id)).specialties} :
           \E specialties \in {SortedNames(inferred)},
              currentSpecialties \in {SortedNames(IF hospital.specialties = NULL THEN <<>>
                                                  ELSE hospital.specialties[1])} :
           \E written \in {IF specialties # currentSpecialties
                           THEN UpdatedProfiles(hospital.id, err) ELSE {}} :
             page' = [page EXCEPT
               !.fetching = Some([f EXCEPT !.next = @ + 1]),
               !.hospitals[f.next].specialties =
                 IF @ = NULL THEN NULL ELSE Some(currentSpecialties),
               !.profiles = [id \in DOMAIN @ |->
                               IF id \in written THEN [specialties |-> Some(specialties)]
                               ELSE @[id]],
               !.events =
                 MathMin(@ + Cardinality({id \in written :
                                            ProfileSelectPolicy(page.user, id)}),
                         MaxEvents)]
  /\ UNCHANGED <<tokenVars, engine>>


ReconcileNext ==
  \/ \E err \in BOOLEAN : mount(err)
  \/ \E err \in BOOLEAN : onProfilesUpdate(err)
  \/ \E err \in BOOLEAN : fetchDataLoop(err)

(* ---- specifications ---- *)
\* one token, the hospital's view modelled, status only
Init == InitScoped([columns |-> {}, returns |-> {}, views |-> {"hospital"}, rows |-> 1, subscribed |-> {}])
Spec == Init /\ [][Next]_vars

\* up to MaxTokens tokens, status only, no client has fetched
InitFleet == InitScoped([columns |-> {}, returns |-> {}, views |-> {}, rows |-> MaxTokens, subscribed |-> {}])
SpecFleet == InitFleet /\ [][StoreNext]_vars

\* one token with its timestamps, the step operations' return values
InitSteps ==
  InitScoped([columns |-> {"started_at", "arrived_at_patient_at"},
              returns |-> {"startJourney", "arrivedAtPatient", "startToHospital"},
              views |-> {}, rows |-> 1, subscribed |-> {}])
SpecSteps == InitSteps /\ [][StoreNext]_vars

\* one token, completeEmergency and cancelEmergency observed
InitFinish ==
  InitScoped([columns |-> {"completed_at"},
              returns |-> {"completeEmergency", "cancelEmergency"},
              views |-> {}, rows |-> 1, subscribed |-> {}])
SpecFinish == InitFinish /\ [][StoreNext]_vars

\* one token, assignHospitalWithRoutes observed, the hospital's view modelled
InitAssign ==
  InitScoped([columns |-> {},
              returns |-> {"assignHospitalWithRoutes"},
              views |-> {"hospital"}, rows |-> 1, subscribed |-> {}])
SpecAssign == InitAssign /\ [][Next]_vars

\* one token with its facility and both route legs, assignHospitalWithRoutes observed
InitFacility ==
  InitScoped([columns |-> {"hospital_id", "hospital_name", "route_to_patient",
                           "route_to_hospital"},
              returns |-> {"assignHospitalWithRoutes"},
              views |-> {}, rows |-> 1, subscribed |-> {}])
SpecFacility == InitFacility /\ [][StoreNext]_vars

\* one token with the timestamps of its assignment, start and completion
InitPath ==
  InitScoped([columns |-> {"assigned_at", "started_at", "completed_at"},
              returns |-> {}, views |-> {}, rows |-> 1, subscribed |-> {}])
SpecPath == InitPath /\ [][StoreNext]_vars

\* one token with its decline reason, declineEmergency observed
InitDecline ==
  InitScoped([columns |-> {"decline_reason"}, returns |-> {"declineEmergency"},
              views |-> {}, rows |-> 1, subscribed |-> {}])
SpecDecline == InitDecline /\ [][StoreNext]_vars

\* one token, releaseAmbulance observed, the hospital's view modelled
InitRelease ==
  InitScoped([columns |-> {}, returns |-> {"releaseAmbulance"},
              views |-> {"hospital"}, rows |-> 1, subscribed |-> {}])
SpecRelease == InitRelease /\ [][Next]_vars

\* one token, both create operations observed
InitCreate ==
  InitScoped([columns |-> {}, returns |-> {"createToken", "createHospitalEmergency"},
              views |-> {}, rows |-> 1, subscribed |-> {}])
SpecCreate == InitCreate /\ [][StoreNext]_vars

\* one token with what createHospitalEmergency stores in it: the facility, both route
\* legs and assigned_at; createHospitalEmergency observed
InitHospitalEmergency ==
  InitScoped([columns |-> {"hospital_id", "hospital_name", "hospital_lat", "hospital_lng",
                           "route_to_patient", "route_to_hospital", "assigned_at"},
              returns |-> {"createHospitalEmergency"},
              views |-> {}, rows |-> 1, subscribed |-> {}])
SpecHospitalEmergency == InitHospitalEmergency /\ [][StoreNext]_vars

\* two tokens, the driver subscribed: creation and decline by both clients, the driver's
\* realtime handler and its ambulance write.  Notifications are
\* delivered and the handler's write reaches the store and is not rejected upstream.
InitNotify ==
  InitScoped([columns |-> {}, returns |-> {"clearAfterDecline"},
              views |-> {}, rows |-> 2, subscribed |-> {"driver"}])
NotifyNext ==
  \/ \E c \in Clients, a \in Ambulances, p \in Pickups, o \in Origins, err \in BOOLEAN :
       createToken(c, a, p, o, err)
  \/ \E c \in Clients, err \in BOOLEAN : createTokenLink(c, err)
  \/ \E c \in Clients, a \in Ambulances, p \in Pickups, o \in Origins,
        h \in Inputs(HospitalIds, {"hospital_id"}), f \in Facilities,
        r1 \in Inputs(Routes, LegOneColumns \cup MirrorColumns),
        r2 \in Inputs(Routes, LegTwoColumns \cup MirrorColumns),
        now \in Inputs(Now, {"assigned_at"}), err \in BOOLEAN :
       createHospitalEmergency(c, a, p, o, h, f, r1, r2, now, err)
  \/ \E c \in Clients, err \in BOOLEAN : createHospitalEmergencyLink(c, err)
  \/ \E c \in Clients, t \in TokenIds, reason \in Inputs(Reasons, {"decline_reason"}),
        err \in BOOLEAN :
       declineEmergency(c, t, reason, err)
  \/ \E c \in Clients : onPostgresChanges(c)
  \/ \E c \in Clients : \E updatedToken \in channel[c].clearing :
       clearAfterDecline(c, updatedToken, FALSE)
\* every delivered notification is handled and every write the handler issued lands
SpecNotify ==
  /\ InitNotify
  /\ [][NotifyNext]_vars
  /\ WF_vars(onPostgresChanges("driver"))
  /\ \A t \in 1..MaxTokens, a \in Ambulances :
       WF_vars(clearAfterDecline("driver", [id |-> t, ambulance_id |-> a], FALSE))

\* the capacity engine alone
SpecCapacity ==
  /\ InitScoped([columns |-> {}, returns |-> {}, views |-> {}, rows |-> 1, subscribed |-> {}])
  /\ [][CapacityNext]_vars
SpecEngine ==
  /\ InitScoped([columns |-> {}, returns |-> {}, views |-> {}, rows |-> 1, subscribed |-> {}])
  /\ [][EngineNext]_vars

\* the page in a given state of the hook, with no token, no vehicle activity and no
\* engine record
InitPageAs(hook) ==
  /\ tokens = <<>>
  /\ ambulances = [a \in Ambulances |->
                     [active_token_id |-> NULL, emergency_status |-> "inactive"]]
  /\ local = [c \in Clients |-> [tokens |-> <<>>, activeToken |-> NULL]]
  /\ call = [c \in Clients |-> Idle]
  /\ last = [op |-> "none", ret |-> "none", error |-> "none"]
  /\ channel = [c \in Clients |-> [events |-> <<>>, clearing |-> {}]]
  /\ scope = [columns |-> {}, returns |-> {}, views |-> {}, rows |-> 0, subscribed |-> {}]
  /\ engine = [capacityMap |-> <<>>, localStorage |-> NULL, intervalId |-> Some(1),
               reloaded |-> FALSE]
  /\ page = hook

\* the hook's functions called on given inputs, nobody signed in and nothing stored
InitPage(hospitals, recentUpdates) ==
  InitPageAs([hospitals |-> hospitals, recentUpdates |-> recentUpdates, profiles |-> <<>>,
              user |-> NULL, mounted |-> FALSE, fetching |-> NULL, events |-> 0,
              result |-> NULL])

\* findBestHospitals on every list of at most MaxHospitals hospitals
SpecRecommend ==
  /\ \E hospitals \in SeqUpTo(RecommendHospitals, MaxHospitals) : InitPage(hospitals, <<>>)
  /\ [][RecommendNext]_vars

\* findBestHospitals on a specialised facility and one that only has related words
SpecScore ==
  /\ \E emergencyKeyword \in EmergencyKeywords \cap Vocabulary, chosen \in SUBSET (1..5),
        trauma \in BOOLEAN :
       InitPage(<<Specialised(emergencyKeyword), Related(emergencyKeyword, chosen, trauma)>>,
                <<>>)
  /\ [][RecommendNext]_vars

\* analyzeSpecialties on one hospital and every list of at most MaxUpdates update records
SpecInfer ==
  /\ \E hospital \in InferHospitals, recentUpdates \in SeqUpTo(InferUpdates, MaxUpdates) :
       InitPage(<<hospital>>, recentUpdates)
  /\ [][InferNext]_vars

\* one token with the to-pickup leg and the legacy single-route fields stored;
\* assignHospitalWithRoutes and createHospitalEmergency observed
SpecMirror ==
  /\ InitScoped([columns |-> LegOneColumns \cup MirrorColumns,
                 returns |-> {"assignHospitalWithRoutes", "createHospitalEmergency"},
                 views |-> {}, rows |-> 1, subscribed |-> {}])
  /\ [][StoreNext]_vars

\* one token, the driver's React state modelled and its realtime subscription delivered:
\* creation, complete, cancel and decline, fetchTokens, the realtime handler and its
\* ambulance write
ConvergeNext ==
  \/ \E c \in Clients, a \in Ambulances, p \in Pickups, o \in Origins, err \in BOOLEAN :
       createToken(c, a, p, o, err)
  \/ \E c \in Clients, err \in BOOLEAN : createTokenLink(c, err)
  \/ \E c \in Clients, t \in TokenIds, a \in Ambulances,
        now \in Inputs(Now, {"completed_at"}), err \in BOOLEAN :
       completeEmergency(c, t, a, now, err)
  \/ \E c \in Clients, t \in TokenIds, a \in Ambulances, err \in BOOLEAN :
       cancelEmergency(c, t, a, err)
  \/ \E c \in Clients, err \in BOOLEAN : clearAmbulance(c, err)
  \/ \E c \in Clients, t \in TokenIds, reason \in Inputs(Reasons, {"decline_reason"}),
        err \in BOOLEAN :
       declineEmergency(c, t, reason, err)
  \/ \E c \in Clients, err \in BOOLEAN : fetchTokens(c, err)
  \/ \E c \in Clients : onPostgresChanges(c)
  \/ \E c \in Clients : \E updatedToken \in channel[c].clearing, err \in BOOLEAN :
       clearAfterDecline(c, updatedToken, err)
SpecConverge ==
  /\ InitScoped([columns |-> {}, returns |-> {}, views |-> {"driver"}, rows |-> 1,
                 subscribed |-> {"driver"}])
  /\ [][ConvergeNext]_vars

\* the hook mounted on a page of a signed-in user: two profiles rows with role hospital,
\* with whatever specialties are stored, and the update records of the last 30 days;
\* no further update record arrives. The effect runs, notifications are delivered and
\* handled, and fetchData is not suspended forever
InitReconcile ==
  \E signedIn \in {NULL, Some("db1"), Some("db3")},
     stored1 \in {NULL, Some(<<"Cardiac">>), Some(<<"Neuro">>), Some(<<"Trauma", "Cardiac">>)},
     stored3 \in {NULL, Some(<<"Trauma", "Pediatric">>), Some(<<"Pediatric">>)},
     recentUpdates \in
       SeqUpTo({HospitalUpdate("db1", "department",
                  <<<<<<"n", "a", "m", "e">>, <<"C", "a", "r", "d", "i", "o", "l", "o", "g", "y">>>>>>),
                HospitalUpdate("db3", "specialist",
                  <<<<<<"s", "p", "i", "n", "e">>, <<"y", "e", "s">>>>>>)},
               MaxUpdates) :
    InitPageAs([hospitals |-> fetchHospitals(<<[HeartCentre EXCEPT !.specialties = stored1],
                                               [ChildrenHospital EXCEPT !.specialties = stored3]>>),
                recentUpdates |-> recentUpdates,
                profiles |-> [id \in {"db1", "db3"} |->
                                [specialties |-> IF id = "db1" THEN stored1 ELSE stored3]],
                user |-> signedIn, mounted |-> FALSE, fetching |-> NULL, events |-> 0,
                result |-> NULL])
SpecReconcile ==
  /\ InitReconcile
  /\ [][ReconcileNext]_vars
  /\ WF_vars(\E err \in BOOLEAN : mount(err))
  /\ WF_vars(\E err \in BOOLEAN : onProfilesUpdate(err))
  /\ WF_vars(\E err \in BOOLEAN : fetchDataLoop(err))

(* ---- claims ---- *)
ActiveTokensOf(ambulanceId) ==
  {i \in DOMAIN tokens :
     tokens[i].ambulance_id = ambulanceId /\ tokens[i].status \in ACTIVE_TOKEN_STATUSES}

\* C1: in every reachable state each vehicle has at most one token in an active status,
\* whatever createToken and createHospitalEmergency calls the two clients issue
C1_AtMostOneActiveTokenPerVehicle ==
  \A a \in Ambulances : Cardinality(ActiveTokensOf(a)) <= 1

\* C2: startJourney, arrivedAtPatient and startToHospital succeed only from
\* route_selected, in_progress and at_patient respectively; on a token in any other
\* status they return false and leave the token's status and timestamps unchanged
C2_StepOnlyFromPredecessor ==
  [][\A c \in Clients, t \in TokenIds, now \in Times, err \in BOOLEAN :
       /\ (/\ startJourney(c, t, now, err)
           /\ t \in DOMAIN tokens /\ tokens[t].status # "route_selected")
          => (last'.op = "startJourney" /\ last'.ret = "false" /\ tokens' = tokens)
       /\ (/\ arrivedAtPatient(c, t, now, err)
           /\ t \in DOMAIN tokens /\ tokens[t].status # "in_progress")
          => (last'.op = "arrivedAtPatient" /\ last'.ret = "false" /\ tokens' = tokens)
       /\ (/\ startToHospital(c, t, err)
           /\ t \in DOMAIN tokens /\ tokens[t].status # "at_patient")
          => (last'.op = "startToHospital" /\ last'.ret = "false" /\ tokens' = tokens)
    ]_vars

\* the step in which client c's suspended operation op returns
Returns(c, op) == call[c].op = op /\ call'[c] = Idle

\* C3: completeEmergency is valid only from to_hospital; on a token in any other status
\* it returns false, leaves status and completed_at unchanged and does not clear the
\* vehicle's active_token_id and emergency status
C3_CompleteOnlyFromToHospital ==
  [][\A c \in Clients :
       /\ \A t \in TokenIds, a \in Ambulances, now \in Times, err \in BOOLEAN :
            (/\ completeEmergency(c, t, a, now, err)
             /\ t \in DOMAIN tokens /\ tokens[t].status # "to_hospital")
            => tokens' = tokens
       /\ (/\ Returns(c, "completeEmergency")
           /\ call[c].from # NULL /\ call[c].from # Some("to_hospital"))
          => (last'.ret = "false" /\ ambulances' = ambulances)
    ]_vars

\* C4: terminal statuses are absorbing: once a token is completed, cancelled or
\* declined no operation of either client changes its status, and it is never deleted
C4_TerminalStatusesAbsorbing ==
  [][\A t \in DOMAIN tokens :
       tokens[t].status \in TerminalStatuses
       => (t \in DOMAIN tokens' /\ tokens'[t].status = tokens[t].status)
    ]_vars

\* C5: from pending the only statuses reachable in one operation are route_selected,
\* by assignHospitalWithRoutes, and declined, by declineEmergency
C5_FromPendingOnlyAssignOrDecline ==
  [][\A t \in DOMAIN tokens :
       (tokens[t].status = "pending" /\ tokens'[t].status # "pending")
       => \/ /\ tokens'[t].status = "route_selected"
             /\ \E c \in Clients, h \in HospitalIds, f \in Facilities, r1 \in Routes,
                   r2 \in Routes, now \in Times :
                  assignHospitalWithRoutes(c, t, h, f, r1, r2, now, FALSE)
          \/ /\ tokens'[t].status = "declined"
             /\ \E c \in Clients, reason \in Reasons : declineEmergency(c, t, reason, FALSE)
    ]_vars

\* C7: whenever completeEmergency or cancelEmergency returns true, the vehicle's
\* active_token_id is null, its emergency status is inactive and the token's status is
\* completed respectively cancelled
C7_FinishClearsVehicle ==
  [][\A c \in Clients :
       (/\ Returns(c, "completeEmergency") \/ Returns(c, "cancelEmergency")
        /\ last'.ret = "true")
       => /\ ambulances'[call[c].ambulance].active_token_id = NULL
          /\ ambulances'[call[c].ambulance].emergency_status = "inactive"
          /\ call[c].token \in DOMAIN tokens'
          /\ tokens'[call[c].token].status =
               (IF call[c].op = "completeEmergency" THEN "completed" ELSE "cancelled")
    ]_vars

\* C8: if the token-row update inside completeEmergency or cancelEmergency fails or
\* affects zero rows, the operation returns false and the vehicle's active_token_id and
\* emergency status keep their previous values
C8_NoVehicleWriteAfterRejectedTokenWrite ==
  [][\A c \in Clients :
       (/\ Returns(c, "completeEmergency") \/ Returns(c, "cancelEmergency")
        /\ ~call[c].written)
       => (last'.ret = "false" /\ ambulances' = ambulances)
    ]_vars

\* C10: assignHospitalWithRoutes called by a client that is not a hospital user returns
\* false and leaves the token's status, facility fields and route legs unchanged
C10_AssignIsFacilityOnly ==
  [][\A c \in Clients, t \in TokenIds, h \in HospitalIds, f \in Facilities,
        r1 \in Routes, r2 \in Routes, now \in Times, err \in BOOLEAN :
       (assignHospitalWithRoutes(c, t, h, f, r1, r2, now, err) /\ ~isHospitalUser(c))
       => (last'.op = "assignHospitalWithRoutes" /\ last'.ret = "false" /\ tokens' = tokens)
    ]_vars

\* a token of the driver's own vehicle in the given status
OwnTokenIn(c, t, status) ==
  /\ t \in DOMAIN tokens
  /\ driver_id[tokens[t].ambulance_id] = c
  /\ tokens[t].status = status

C9_AssignZeroRowsIsFailure ==
  [][\A c \in Clients, t \in TokenIds, h \in Inputs(HospitalIds, {"hospital_id"}),
        f \in Facilities, r1 \in Inputs(Routes, LegOneColumns \cup MirrorColumns),
        r2 \in Inputs(Routes, LegTwoColumns \cup MirrorColumns),
        now \in Inputs(Times, {"assigned_at"}) :
       (/\ UpdatedRows(c, t) = {}
        /\ assignHospitalWithRoutes(c, t, h, f, r1, r2, now, FALSE))
       => /\ last'.op = "assignHospitalWithRoutes" /\ last'.ret = "false"
          /\ tokens' = tokens
          /\ local' = local
    ]_vars

\* assignHospitalWithRoutes has just failed on a missing row while the hospital holds a
\* fetched list with an active token
C9_ZeroRowsRejected ==
  /\ last = [op |-> "assignHospitalWithRoutes", ret |-> "false", error |-> "PGRST116"]
  /\ tokens # <<>>
  /\ local["hospital"].tokens # <<>>
  /\ local["hospital"].activeToken # NULL

\* C11: declineEmergency with an empty reason returns false and leaves the token's
\* status and decline_reason unchanged, whatever the token's status
C11_DeclineRejectsEmptyReason ==
  [][\A c \in Clients, t \in DOMAIN tokens, err \in BOOLEAN :
       declineEmergency(c, t, "", err)
       => (last'.op = "declineEmergency" /\ last'.ret = "false" /\ tokens' = tokens)
    ]_vars

\* C12: a successful declineEmergency by a hospital user on a pending token sets status
\* declined and decline_reason to exactly the given reason, and writes nothing to the
\* ambulances table
C12_DeclineWritesTokenOnly ==
  [][\A c \in Clients, t \in DOMAIN tokens :
       (isHospitalUser(c) /\ tokens[t].status = "pending")
       => \A reason \in Reasons :
            declineEmergency(c, t, reason, FALSE)
            => /\ last'.op = "declineEmergency" /\ last'.ret = "true"
               /\ tokens'[t].status = "declined"
               /\ tokens'[t].decline_reason = Some(reason)
               /\ ambulances' = ambulances
    ]_vars

\* a linked vehicle's token has just been declined with a reason, and the vehicle is
\* still linked to it
C12_DeclinedWithReason ==
  /\ last = [op |-> "declineEmergency", ret |-> "true", error |-> "none"]
  /\ \E t \in DOMAIN tokens :
       /\ tokens[t].status = "declined"
       /\ tokens[t].decline_reason = Some("no beds")
       /\ ambulances[tokens[t].ambulance_id].active_token_id = Some(t)
       /\ ambulances[tokens[t].ambulance_id].emergency_status = "active"

\* C14: in every reachable state a token has a decline_reason only if its status is
\* declined
C14_DeclineReasonOnlyWhenDeclined ==
  \A t \in DOMAIN tokens :
    tokens[t].decline_reason # NULL => tokens[t].status = "declined"

\* the channel of the driver of vehicle a holds the UPDATE event of a's token t with
\* status declined
DeclineNotified(t, a) ==
  \E i \in DOMAIN channel[driver_id[a]].events :
    /\ channel[driver_id[a]].events[i].eventType = "UPDATE"
    /\ channel[driver_id[a]].events[i].new.id = t
    /\ channel[driver_id[a]].events[i].new.ambulance_id = a
    /\ channel[driver_id[a]].events[i].new.status = "declined"

C15_TimestampsWrittenOnce ==
  [][\A t \in DOMAIN tokens :
       \A f \in {"assigned_at", "started_at", "arrived_at_patient_at", "completed_at"} :
         tokens[t][f] # NULL => tokens'[t][f] = tokens[t][f]]_vars

\* C16: when releaseAmbulance returns true, no token of that vehicle is in an active
\* status and the vehicle has active_token_id null and emergency status inactive
C16_ReleaseLeavesNoActiveToken ==
  [][\A c \in Clients :
       Returns(c, "releaseAmbulance") /\ last'.ret = "true"
       => /\ ActiveTokensOf(call[c].ambulance) = {}
          /\ ambulances[call[c].ambulance] =
               [active_token_id |-> NULL, emergency_status |-> "inactive"]]_vars

\* C17: once a vehicle's token is completed or cancelled and the vehicle has no active
\* token, releaseAmbulance on that vehicle changes no token
C17_ReleaseAfterFinishKeepsTokens ==
  [][\A c \in Clients, a \in Ambulances :
       /\ ActiveTokensOf(a) = {}
       /\ \E t \in DOMAIN tokens :
            tokens[t].ambulance_id = a /\ tokens[t].status \in {"completed", "cancelled"}
       /\ \E err \in BOOLEAN : releaseAmbulance(c, a, err)
       => tokens' = tokens]_vars

\* C18: createToken called by a client that is not an ambulance driver, and
\* createHospitalEmergency called by a client that is not a hospital user, return null,
\* insert no token and leave every vehicle's active_token_id and emergency status unchanged
C18_CreationIsRoleGuarded ==
  [][\A c \in Clients, a \in Ambulances, p \in Pickups, o \in Origins, err \in BOOLEAN :
       /\ (profile[c].role # "ambulance" /\ createToken(c, a, p, o, err))
          => /\ last'.op = "createToken" /\ last'.ret = "null"
             /\ tokens' = tokens
             /\ ambulances' = ambulances
       /\ profile[c].role # "hospital"
          => \A h \in Inputs(HospitalIds, {"hospital_id"}), f \in Facilities,
                r1 \in Inputs(Routes, LegOneColumns \cup MirrorColumns),
                r2 \in Inputs(Routes, LegTwoColumns \cup MirrorColumns),
                now \in Inputs(Now, {"assigned_at"}) :
               createHospitalEmergency(c, a, p, o, h, f, r1, r2, now, err)
               => /\ last'.op = "createHospitalEmergency" /\ last'.ret = "null"
                  /\ tokens' = tokens
                  /\ ambulances' = ambulances
    ]_vars

\* the hospital user's createToken and the driver's createHospitalEmergency were turned
\* away by the role test while the vehicle is linked to its token
C18_CreateRefused ==
  /\ last.ret = "null" /\ last.error = "none"
  /\ last.op \in {"createToken", "createHospitalEmergency"}
  /\ Len(tokens) = 1
  /\ ambulances["A1"] = [active_token_id |-> Some(1), emergency_status |-> "active"]

\* C19: the token createHospitalEmergency inserts is in route_selected from its first
\* stored state, with both route legs, the hospital's id, name and position and
\* assigned_at set; and when the call returns the token, the vehicle's active_token_id is
\* the new token's id and its emergency status is active
C19_HospitalEmergencyStoredAndLinked ==
  [][\A c \in Clients :
       /\ (call[c] = Idle /\ call'[c].op = "createHospitalEmergency")
          => LET row == tokens'[call'[c].token]
             IN  /\ call'[c].token \notin DOMAIN tokens
                 /\ row.status = "route_selected"
                 /\ \A f \in {"route_to_patient", "route_to_hospital", "hospital_id",
                               "hospital_name", "hospital_lat", "hospital_lng",
                               "assigned_at"} : row[f] # NULL
       /\ (Returns(c, "createHospitalEmergency") /\ last'.ret = "token")
          => ambulances'[call[c].ambulance] =
               [active_token_id |-> Some(call[c].token), emergency_status |-> "active"]
    ]_vars

\* C20: no step changes a stored token's ambulance_id, ambulance_origin_lat,
\* ambulance_origin_lng, pickup_lat or pickup_lng, and no token is removed
C20_CreationFieldsImmutable ==
  [][\A t \in DOMAIN tokens :
       /\ t \in DOMAIN tokens'
       /\ \A f \in {"ambulance_id", "ambulance_origin_lat", "ambulance_origin_lng",
                     "pickup_lat", "pickup_lng"} :
            tokens'[t][f] = tokens[t][f]
    ]_vars

\* a token that was updated up to to_hospital still carries the vehicle, origin and
\* pickup it was created with
C20_UpdatedTokenKeepsCreationFields ==
  \E t \in DOMAIN tokens :
    /\ tokens[t].status = "to_hospital"
    /\ tokens[t].ambulance_id = "A1"
    /\ tokens[t].ambulance_origin_lat = Some(29) /\ tokens[t].ambulance_origin_lng = Some(75)
    /\ tokens[t].pickup_lat = 31 /\ tokens[t].pickup_lng = 77
    /\ ambulances["A1"].active_token_id = Some(t)

\* C21: after initialization and after any number of ticks every known facility has
\* 0 <= available_beds <= total_beds, 0 <= icu_available <= icu_beds and
\* incoming_ambulances >= 0
C21_CapacityWithinBounds ==
  \A id \in DOMAIN engine.capacityMap :
    LET capacity == engine.capacityMap[id]
    IN  /\ 0 <= capacity.available_beds /\ capacity.available_beds <= capacity.total_beds
        /\ 0 <= capacity.icu_available /\ capacity.icu_available <= capacity.icu_beds
        /\ capacity.incoming_ambulances >= 0

\* ticks have driven a facility to no free ICU bed and no incoming ambulance
C21_FacilityAtItsLimits ==
  \E id \in DOMAIN engine.capacityMap :
    /\ engine.capacityMap[id].icu_available = 0
    /\ engine.capacityMap[id].incoming_ambulances = 0
    /\ engine.capacityMap[id].available_beds < engine.capacityMap[id].total_beds \div 5

C23_BestIsFirstMaximumNearestIsMinimum ==
  (page.result # NULL /\ page.result[1].op = "findBestHospitals") =>
    LET call1 == page.result[1]
        hospitals == page.hospitals
        match == SubSeq([i \in DOMAIN hospitals |->
                            SpecialtyMatch(hospitals[i], call1.patient,
                                           call1.emergencyKeyword)],
                         1, Len(hospitals))
        first == CHOOSE i \in DOMAIN hospitals :
                   /\ \A j \in DOMAIN hospitals : match[j].matchScore <= match[i].matchScore
                   /\ \A j \in 1..(i - 1) : match[j].matchScore < match[i].matchScore
    IN  IF hospitals = <<>>
        THEN call1.value = [best |-> NULL, nearest |-> NULL]
        ELSE /\ call1.value.best = Some(match[first])
             /\ call1.value.nearest # NULL
             /\ \E i \in DOMAIN hospitals : call1.value.nearest[1] = match[i]
             /\ \A j \in DOMAIN hospitals : call1.value.nearest[1].distance <= match[j].distance

\* two different facilities tie on the maximum score, the earlier one is `best`, and
\* `nearest` is another facility
C23_TieResolvedToEarlierAndNearestDiffers ==
  /\ page.result # NULL
  /\ page.result[1].op = "findBestHospitals"
  /\ LET call1 == page.result[1]
         hospitals == page.hospitals
         match == SubSeq([i \in DOMAIN hospitals |->
                            SpecialtyMatch(hospitals[i], call1.patient,
                                           call1.emergencyKeyword)],
                         1, Len(hospitals))
     IN  /\ \E i \in DOMAIN hospitals : \E j \in (i + 1)..Len(hospitals) :
              /\ hospitals[i] # hospitals[j]
              /\ match[i].matchScore = match[j].matchScore
              /\ \A k \in DOMAIN hospitals : match[k].matchScore <= match[i].matchScore
              /\ \A k \in 1..(i - 1) : match[k].matchScore < match[i].matchScore
              /\ call1.value.best[1].hospital = hospitals[i]
         /\ call1.value.nearest[1].hospital # call1.value.best[1].hospital

\* C24: of two facilities at the same distance, the one whose specialty list contains the
\* requested keyword scores strictly higher than the one whose list does not, whatever
\* keywords the other has in its name and address and whether or not it lists Trauma.
C24_ExactMatchScoresHigher ==
  (page.result # NULL /\ page.result[1].op = "findBestHospitals") =>
    LET call1 == page.result[1]
        hospitals == page.hospitals
        match == SubSeq([i \in DOMAIN hospitals |->
                           SpecialtyMatch(hospitals[i], call1.patient,
                                          call1.emergencyKeyword)],
                        1, Len(hospitals))
    IN  \A i, j \in DOMAIN hospitals :
          ( /\ match[i].distance = match[j].distance
            /\ ArrayIncludes(match[i].specialties, call1.emergencyKeyword)
            /\ ~ArrayIncludes(match[j].specialties, call1.emergencyKeyword) )
          => /\ match[i].matchScore > match[j].matchScore
             /\ call1.value.best[1].hospital # hospitals[j]

\* C25: analyzeSpecialties returns a specialty of the vocabulary exactly when twice the
\* number of its keywords that occur in the lower-cased name and address plus three
\* times the number of (update record, keyword) pairs whose keyword occurs in the
\* record's serialized payload is at least 2; with an empty text and no update record
\* the list is empty; the same inputs give the same result.
C25_SpecialtyIncludedIffScoreAtLeastTwo ==
  (page.result # NULL /\ page.result[1].op = "analyzeSpecialties") =>
    LET call1 == page.result[1]
        text == hospitalText(call1.hospital)
        payload == SubSeq([u \in DOMAIN page.recentUpdates |->
                             toLowerCase(JsonStringifyData(page.recentUpdates[u].update_data))],
                          1, Len(page.recentUpdates))
        inText(e) == {k \in DOMAIN e.keywords : includes(text, e.keywords[k])}
        inUpdates(e) == {pair \in (DOMAIN payload) \X (DOMAIN e.keywords) :
                           includes(payload[pair[1]], e.keywords[pair[2]])}
        expected == {e.specialty : e \in
                       {SPECIALTY_KEYWORDS[n] : n \in
                          {n \in DOMAIN SPECIALTY_KEYWORDS :
                             2 * Cardinality(inText(SPECIALTY_KEYWORDS[n]))
                             + 3 * Cardinality(inUpdates(SPECIALTY_KEYWORDS[n])) >= 2}}}
        specialties == call1.value.specialties
    IN  /\ {specialties[i] : i \in DOMAIN specialties} = expected
        /\ Len(specialties) = Cardinality(expected)
        /\ (call1.hospital.organization_name = <<>> /\ call1.hospital.address = NULL
            /\ page.recentUpdates = <<>>) => specialties = <<>>
        /\ call1.value = analyzeSpecialties(call1.hospital, page.recentUpdates)

\* a result that holds a specialty owed to the name alone, one owed to an update record
\* alone (through a key of its payload), and leaves out the specialties without a match
C25_SpecialtyFromNameAndFromUpdate ==
  /\ page.result # NULL
  /\ page.result[1].op = "analyzeSpecialties"
  /\ page.result[1].hospital = HeartCentre
  /\ page.recentUpdates = <<HospitalUpdate("db3", "specialist", <<<<<<"s", "p", "i", "n", "e">>, <<"y", "e", "s">>>>>>)>>
  /\ page.result[1].value.specialties = <<"Cardiac", "Orthopedics">>

\* the legacy single-route fields of a row repeat its to-pickup leg
MirrorEqualsLegOne(row) ==
  /\ row.route_to_patient # NULL
  /\ row.selected_route = row.route_to_patient
  /\ row.route_type = Some(row.route_to_patient[1].type)
  /\ row.route_distance_meters = row.route_to_patient_distance_meters
  /\ row.route_duration_seconds = row.route_to_patient_duration_seconds

\* C26: the row stored by a successful assignHospitalWithRoutes or createHospitalEmergency
\* has its legacy fields equal to the to-pickup leg: selected_route = route_to_patient,
\* route_type is the leg's type, route_distance_meters = route_to_patient_distance_meters
\* and route_duration_seconds = route_to_patient_duration_seconds.
C26_LegacyMirrorEqualsPickupLeg ==
  [][\A c \in Clients :
       /\ (call[c] = Idle /\ call'[c].op = "createHospitalEmergency")
          => MirrorEqualsLegOne(tokens'[call'[c].token])
       /\ \A t \in DOMAIN tokens :
            ( /\ last'.op = "assignHospitalWithRoutes" /\ last'.ret = "true"
              /\ \E h \in Inputs(HospitalIds, {"hospital_id"}), f \in Facilities,
                    r1 \in Routes, r2 \in Routes, now \in Inputs(Times, {"assigned_at"}) :
                   assignHospitalWithRoutes(c, t, h, f, r1, r2, now, FALSE) )
            => MirrorEqualsLegOne(tokens'[t])
    ]_vars

\* C29: the ambulance write a decline notification triggers changes only a row whose
\* active_token_id still equals the declined token's id: a vehicle that has meanwhile
\* been linked to another token keeps its active_token_id and emergency_status.
C29_DeclineClearLeavesNewerLink ==
  [][\A c \in Clients, t \in 1..MaxTokens, a \in Ambulances, err \in BOOLEAN :
       clearAfterDecline(c, [id |-> t, ambulance_id |-> a], err)
       => \A b \in Ambulances :
            ambulances[b].active_token_id # Some(t) => ambulances'[b] = ambulances[b]
    ]_vars

\* the clear for declined token 1 has been applied, every notification is handled, and
\* the vehicle is linked to token 2 and active
C29_NewerTokenStillLinked ==
  /\ last.op = "clearAfterDecline"
  /\ Len(tokens) = 2
  /\ tokens[1].status = "declined"
  /\ tokens[2].ambulance_id = tokens[1].ambulance_id
  /\ tokens[2].status \in ACTIVE_TOKEN_STATUSES
  /\ ambulances[tokens[1].ambulance_id] =
       [active_token_id |-> Some(2), emergency_status |-> "active"]
  /\ \A c \in Clients : channel[c] = [events |-> <<>>, clearing |-> {}]

\* C28: in every state with no operation between two of its writes and no notification
\* or handler write pending, a vehicle's active_token_id is null or names an active
\* token of that vehicle, and every active token is named by its vehicle's
\* active_token_id.
C28_BackReferencesConsistent ==
  (\A c \in Clients : call[c] = Idle /\ channel[c] = [events |-> <<>>, clearing |-> {}])
  => /\ \A a \in Ambulances :
          ambulances[a].active_token_id # NULL
          => LET t == ambulances[a].active_token_id[1]
             IN  /\ t \in DOMAIN tokens
                 /\ tokens[t].ambulance_id = a
                 /\ tokens[t].status \in ACTIVE_TOKEN_STATUSES
     /\ \A t \in DOMAIN tokens :
          tokens[t].status \in ACTIVE_TOKEN_STATUSES
          => ambulances[tokens[t].ambulance_id].active_token_id = Some(t)

\* C27: once no operation is between two of its writes and every notification sent to a
\* subscribed client has been handled, the client's token list has exactly one entry for
\* each token its SELECT policy shows, with the status the store holds, and no other
\* entry, and its activeToken is null or an active entry of that list.
C27_LocalListConvergesToStore ==
  (\A c \in Clients : call[c] = Idle /\ channel[c] = [events |-> <<>>, clearing |-> {}])
  => \A c \in scope.subscribed \cap scope.views :
       LET list == local[c].tokens
       IN  /\ \A t \in DOMAIN tokens :
                TokenSelectPolicy(c, tokens[t])
                => /\ Cardinality({i \in DOMAIN list : list[i].id = t}) = 1
                   /\ \A i \in DOMAIN list : list[i].id = t => list[i].status = tokens[t].status
           /\ \A i \in DOMAIN list :
                list[i].id \in DOMAIN tokens /\ TokenSelectPolicy(c, tokens[list[i].id])
           /\ local[c].activeToken # NULL
              => /\ \E i \in DOMAIN list : list[i] = local[c].activeToken[1]
                 /\ local[c].activeToken[1].status \in ACTIVE_TOKEN_STATUSES

\* C30: with no new update record arriving, the cycle fetchData -> updateHospitalSpecialties
\* -> profiles UPDATE notification -> fetchData comes to rest: from some point on no
\* fetchData call is running, no notification is pending and so no further write is
\* issued.
C30_ReconciliationQuiesces ==
  <>[](page.mounted /\ page.fetching = NULL /\ page.events = 0)
====
